---- MODULE Spec2Model ----
(***************************************************************************)
(* BadFs: a fault-injection wrapper around an afero filesystem provider.   *)
(* The registry (three path-keyed maps behind one sync.RWMutex), the       *)
(* facade operations and the BadFile handle wrapper are modelled step by   *)
(* step: one step per lock request, lock acquisition, critical section,    *)
(* sleep, provider call and unlocked map access.                           *)
(*                                                                         *)
(* Strings are sequences of one-character strings, so filepath.Clean and   *)
(* strings.HasPrefix are computed on characters as the Go code does.       *)
(***************************************************************************)
EXTENDS Integers, Sequences, FiniteSets, TLC

(* ------------------------------------------------------------------ *)
(* Strings and paths                                                  *)
(* ------------------------------------------------------------------ *)

\* afero.FilePathSeparator
FilePathSeparator == <<"/">>

Dot == <<".">>
DotDot == <<".", ".">>

\* strings.HasPrefix(s, prefix)
HasPrefix(s, prefix) ==
    /\ Len(prefix) <= Len(s)
    /\ SubSeq(s, 1, Len(prefix)) = prefix

\* The elements of a path between separators, empty elements included.
RECURSIVE SplitElems(_, _, _)
SplitElems(s, i, cur) ==
    IF i > Len(s) THEN <<cur>>
    ELSE IF s[i] = "/" THEN <<cur>> \o SplitElems(s, i + 1, <<>>)
    ELSE SplitElems(s, i + 1, Append(cur, s[i]))

\* One element of the path applied to the output built so far
\* (filepath.Clean's loop body): empty and "." are skipped, ".." backs up
\* over a previous element, is dropped at the root, and is kept in a
\* relative path that has nothing to back up over.
CleanStep(out, e, rooted) ==
    IF e = <<>> \/ e = Dot THEN out
    ELSE IF e = DotDot THEN
        IF Len(out) > 0 /\ out[Len(out)] # DotDot THEN SubSeq(out, 1, Len(out) - 1)
        ELSE IF rooted THEN out
        ELSE Append(out, e)
    ELSE Append(out, e)

RECURSIVE CleanElems(_, _, _, _)
CleanElems(elems, i, out, rooted) ==
    IF i > Len(elems) THEN out
    ELSE CleanElems(elems, i + 1, CleanStep(out, elems[i], rooted), rooted)

RECURSIVE JoinElems(_, _)
JoinElems(elems, i) ==
    IF i > Len(elems) THEN <<>>
    ELSE IF i = Len(elems) THEN elems[i]
    ELSE elems[i] \o FilePathSeparator \o JoinElems(elems, i + 1)

\* filepath.Clean
Clean(path) ==
    IF path = <<>> THEN Dot
    ELSE LET rooted == path[1] = "/"
             out == CleanElems(SplitElems(path, 1, <<>>), 1, <<>>, rooted)
         IN IF rooted THEN FilePathSeparator \o JoinElems(out, 1)
            ELSE IF out = <<>> THEN Dot
            ELSE JoinElems(out, 1)

\* (mutant) a path used as it was given
normalizePathIdentity(path) == path

normalizePath(path) == Clean(path)

(* ------------------------------------------------------------------ *)
(* Values                                                             *)
(* ------------------------------------------------------------------ *)

\* Go's nil (a nil error, a nil handle)
Nil == "nil"
\* no thread / no operation
None == "none"

\* the error values a caller registers
Errors == {"e1", "e2"}
\* an error returned by the wrapped provider
SrcErr == "srcErr"
\* fmt.Errorf("latency for I/O operations should be positive time durations")
ErrLatency == "errLatency"
\* a path as one string, as fmt prints it
RECURSIVE Str(_)
Str(name) == IF name = <<>> THEN "" ELSE Head(name) \o Str(Tail(name))
\* fmt.Errorf("no error registered for '%s'", name)
ErrNotRegistered(name) == "no error registered for '" \o Str(name) \o "'"
\* fmt.Errorf("no latency registered for '%s'", name)
ErrNoLatency(name) == "no latency registered for '" \o Str(name) \o "'"
\* &os.LinkError{Op: "symlink", Old: name, New: linkName, Err: afero.ErrNoSymlink}
ErrNoSymlink(name, linkName) ==
    "symlink " \o Str(name) \o " " \o Str(linkName) \o ": symlink not supported"
\* &os.PathError{Op: "readlink", Path: name, Err: afero.ErrNoReadlink}
ErrNoReadlink(name) == "readlink " \o Str(name) \o ": readlink not supported"

Threads == {"t1", "t2"}

\* Go maps as functions on the set of their keys
EmptyMap == [k \in {} |-> Nil]
HasKey(m, k) == k \in DOMAIN m
\* (mutant) an assignment that keeps the value of a key already present
MapSetIfAbsent(m, k, v) ==
    [x \in DOMAIN m \cup {k} |-> IF x = k /\ ~HasKey(m, k) THEN v ELSE m[x]]
MapSet(m, k, v) == [x \in DOMAIN m \cup {k} |-> IF x = k THEN v ELSE m[x]]
\* (mutant) a delete that leaves the map as it was
MapDelNothing(m, k) == m
MapDel(m, k) == [x \in DOMAIN m \ {k} |-> m[x]]
\* m[k] of the latency map: the zero value (0) when the key is absent
LatAt(m, k) == IF HasKey(m, k) THEN m[k] ELSE 0

\* NewRandomError(err, probability)
NewRandomError(err, probability) == [err |-> err, probability |-> probability]

\* RandomError.getError: the rule's error, whatever its probability
getError(rule) == rule.err

\* the zero value of an error map's entries
NilRule == [err |-> Nil, probability |-> 0]

\* the error an entry yields: nil for the zero value
RuleError(rule) == IF rule = NilRule THEN Nil ELSE getError(rule)

\* m[k] of an error map: the zero value when the key is absent
ErrAt(m, k) == IF HasKey(m, k) THEN m[k] ELSE NilRule

(* ------------------------------------------------------------------ *)
(* Bounds and inputs                                                  *)
(* ------------------------------------------------------------------ *)

\* calls started in one behaviour
MaxCalls == 2
\* BadFile handles opened in one behaviour
MaxFiles == 2
\* calls made by the caller of the administrative interface alone
MaxRegistryCalls == 3
\* calls made by the two concurrent callers together
MaxConcCalls == 3
\* calls made by the caller of RemoveAll and MkdirAll
MaxTreeCalls == 3
\* calls made by the caller that names one path in two ways
MaxAliasCalls == 3
\* calls made by two goroutines, one of which makes a link
MaxCloneCalls == 3
\* calls made by two goroutines that share a handle
MaxSharedCalls == 4
\* calls made by the caller that sets and clears the errors of a handle
MaxHandleCalls == 5
\* calls made by the caller whose returned calls are recorded
MaxScenarioCalls == 5
\* calls made by the caller that also uses the handles it opened
MaxFileCalls == 4

\* error arguments of Add*Error
ErrInputs == Errors \cup {Nil}
\* latency arguments of AddLatency (time.Duration)
LatencyInputs == {-1, 0, 1, 2}
\* probability arguments of AddRandom*Error
Probabilities == {0, 1}

(* ------------------------------------------------------------------ *)
(* State                                                              *)
(* ------------------------------------------------------------------ *)

VARIABLES
    writeErrors,    \* BadFs.writeErrors
    readErrors,     \* BadFs.readErrors
    latencies,      \* BadFs.latencies
    mu,             \* BadFs.mu: writer, pending writers, read holds per thread
    source,         \* BadFs.source: the optional interfaces the provider implements
    files,          \* the BadFile handles returned so far
    th,             \* per thread: the call in progress or last returned
    ncalls,         \* calls started
    log,            \* the calls that returned, in order, when recorded
    harness         \* the caller: how many calls it makes, whether it records them

vars == <<writeErrors, readErrors, latencies, mu, source, files, th, ncalls,
          log, harness>>

IdleThread ==
    [pc |-> "idle", op |-> None, raw |-> <<>>, name |-> <<>>, name2 |-> <<>>,
     cur |-> <<>>, arg |-> Nil, dir |-> None, lat |-> 0, todo |-> {}, seen |-> {}, tmp |-> <<>>, ret |-> None,
     val |-> Nil,
     trace |-> <<>>]

\* New(source)
New(src) ==
    /\ writeErrors = EmptyMap
    /\ readErrors = EmptyMap
    /\ latencies = EmptyMap
    /\ mu = [w |-> None, pend |-> {}, r |-> [t \in Threads |-> 0]]
    /\ source = src
    /\ files = <<>>
    /\ th = [t \in Threads |-> IdleThread]
    /\ ncalls = 0
    /\ log = <<>>

\* providers: one implementing Linker, LinkReader and Lstater (OsFs), one
\* implementing none of them
Providers ==
    { [linker |-> TRUE, linkReader |-> TRUE, lstater |-> TRUE],
      [linker |-> FALSE, linkReader |-> FALSE, lstater |-> FALSE] }

\* a caller that makes up to `calls` calls
Harness(calls, recording) == harness = [calls |-> calls, recording |-> recording]

Init == Harness(MaxCalls, FALSE) /\ \E src \in Providers : New(src)

(* ------------------------------------------------------------------ *)
(* sync.RWMutex                                                       *)
(* ------------------------------------------------------------------ *)

\* Lock announces the writer; readers arriving later wait behind it
LockRequest(m, t) == [m EXCEPT !.pend = @ \cup {t}]
\* Lock returns once no reader and no writer holds the mutex
CanLock(m, t) == m.w = None /\ \A u \in Threads : m.r[u] = 0
LockAcquire(m, t) == [m EXCEPT !.w = t, !.pend = @ \ {t}]
Unlock(m, t) == [m EXCEPT !.w = None]
\* RLock waits while a writer holds the mutex or is waiting for it
CanRLock(m, t) == m.w = None /\ m.pend = {}
RLock(m, t) == [m EXCEPT !.r[t] = @ + 1]
RUnlock(m, t) == [m EXCEPT !.r[t] = @ - 1]

HoldsLock(t) == mu.w = t
HoldsRLock(t) == mu.r[t] > 0

(* ------------------------------------------------------------------ *)
(* Calls                                                              *)
(* ------------------------------------------------------------------ *)

\* a thread starts a call with a fresh frame
Frame(op, raw, name, pc) ==
    [IdleThread EXCEPT !.pc = pc, !.op = op, !.raw = raw, !.name = name]

Begin(t, frame) ==
    /\ th[t].pc = "idle"
    /\ ncalls < harness.calls
    /\ ncalls' = ncalls + 1
    /\ th' = [th EXCEPT ![t] = frame]
    /\ UNCHANGED <<log, harness>>

\* a step of the call in progress: its frame becomes f; a call that has
\* returned (pc = "idle") is appended to the log when calls are recorded
Goto(t, f) ==
    /\ th' = [th EXCEPT ![t] = f]
    /\ log' = IF harness.recording /\ f.pc = "idle" THEN Append(log, f) ELSE log
    /\ UNCHANGED harness

\* the call returns (err, val)
Return(t, err, val) ==
    Goto(t, [th[t] EXCEPT !.pc = "idle", !.ret = err, !.val = val])

Registry == <<writeErrors, readErrors, latencies>>

(* ------------------------------------------------------------------ *)
(* Registry: Add*, Del*                                               *)
(* ------------------------------------------------------------------ *)

Mutators ==
    {"AddWriteError", "AddRandomWriteError", "DelWriteError",
     "AddReadError", "AddRandomReadError", "DelReadError",
     "AddLatency", "DelLatency"}

AddRandomWriteError(t, raw, err, probability) ==
    /\ Begin(t, [Frame("AddRandomWriteError", raw, raw, "lock")
                    EXCEPT !.arg = NewRandomError(err, probability)])
    /\ UNCHANGED <<Registry, mu, source, files>>

AddWriteError(t, raw, err) ==
    /\ Begin(t, [Frame("AddWriteError", raw, normalizePath(raw), "lock")
                    EXCEPT !.arg = NewRandomError(err, 1)])
    /\ UNCHANGED <<Registry, mu, source, files>>

DelWriteError(t, raw) ==
    /\ Begin(t, Frame("DelWriteError", raw, normalizePath(raw), "lock"))
    /\ UNCHANGED <<Registry, mu, source, files>>

AddRandomReadError(t, raw, err, probability) ==
    /\ Begin(t, [Frame("AddRandomReadError", raw, raw, "lock")
                    EXCEPT !.arg = NewRandomError(err, probability)])
    /\ UNCHANGED <<Registry, mu, source, files>>

AddReadError(t, raw, err) ==
    /\ Begin(t, [Frame("AddReadError", raw, normalizePath(raw), "lock")
                    EXCEPT !.arg = NewRandomError(err, 1)])
    /\ UNCHANGED <<Registry, mu, source, files>>

DelReadError(t, raw) ==
    /\ Begin(t, Frame("DelReadError", raw, normalizePath(raw), "lock"))
    /\ UNCHANGED <<Registry, mu, source, files>>

\* (mutant) a check that lets a zero latency through
LatencyRefusedNegative(latency) == latency < 0

\* a latency that is not positive is refused before the lock is taken
LatencyRefused(latency) == latency <= 0

AddLatency(t, raw, latency) ==
    /\ Begin(t, [Frame("AddLatency", raw, normalizePath(raw),
                        IF LatencyRefused(latency) THEN "refused" ELSE "lock")
                    EXCEPT !.arg = latency])
    /\ UNCHANGED <<Registry, mu, source, files>>

\* return fmt.Errorf("latency for I/O operations should be ...")
AddLatencyRefuse(t) ==
    /\ th[t].pc = "refused"
    /\ Return(t, ErrLatency, Nil)
    /\ UNCHANGED <<Registry, mu, source, files, ncalls>>

DelLatency(t, raw) ==
    /\ Begin(t, Frame("DelLatency", raw, normalizePath(raw), "lock"))
    /\ UNCHANGED <<Registry, mu, source, files>>

\* r.mu.Lock() of a mutator: the writer is announced
MutatorLock(t) ==
    /\ th[t].pc = "lock"
    /\ mu' = LockRequest(mu, t)
    /\ Goto(t, [th[t] EXCEPT !.pc = "locking"])
    /\ UNCHANGED <<Registry, source, files, ncalls>>

\* the map assignment or delete of a mutator
Mutate(op, m, name, arg) ==
    IF op \in {"DelWriteError", "DelReadError", "DelLatency"}
    THEN MapDel(m, name)
    ELSE MapSet(m, name, arg)

\* what a range over a map that is under way in the frame fr keeps of the
\* key a mutator deletes from that map: an entry removed before the range
\* reaches it is not produced, and the key set again is a new entry
Forget(fr, op, name) ==
    IF \/ op = "DelLatency" /\ fr.pc # "rangeErr"
       \/ op = "DelWriteError" /\ fr.pc = "rangeErr"
    THEN [fr EXCEPT !.todo = @ \ {name}, !.seen = @ \ {name}]
    ELSE fr

\* the critical section of a mutator, from Lock returning to Unlock
MutatorRun(t) ==
    LET f == th[t]
        g == [f EXCEPT !.pc = "idle", !.ret = Nil, !.val = Nil]
    IN
    /\ f.pc = "locking"
    /\ CanLock(mu, t)
    /\ mu' = Unlock(LockAcquire(mu, t), t)
    /\ writeErrors' =
         IF f.op \in {"AddWriteError", "AddRandomWriteError", "DelWriteError"}
         THEN Mutate(f.op, writeErrors, f.name, f.arg) ELSE writeErrors
    /\ readErrors' =
         IF f.op \in {"AddReadError", "AddRandomReadError", "DelReadError"}
         THEN Mutate(f.op, readErrors, f.name, f.arg) ELSE readErrors
    /\ latencies' =
         IF f.op \in {"AddLatency", "DelLatency"}
         THEN Mutate(f.op, latencies, f.name, f.arg) ELSE latencies
    /\ th' = [u \in Threads |-> IF u = t THEN g ELSE Forget(th[u], f.op, f.name)]
    /\ log' = IF harness.recording THEN Append(log, g) ELSE log
    /\ UNCHANGED <<source, files, ncalls, harness>>

(* ------------------------------------------------------------------ *)
(* Registry: Get*                                                     *)
(* ------------------------------------------------------------------ *)

GetLatency(t, raw) ==
    /\ Begin(t, Frame("GetLatency", raw, normalizePath(raw), "get"))
    /\ UNCHANGED <<Registry, mu, source, files>>

GetWriteError(t, raw) ==
    /\ Begin(t, Frame("GetWriteError", raw, normalizePath(raw), "get"))
    /\ UNCHANGED <<Registry, mu, source, files>>

\* GetReadError read-locks the mutex itself before it calls getError
GetReadError(t, raw) ==
    /\ Begin(t, Frame("GetReadError", raw, normalizePath(raw), "getOuter"))
    /\ UNCHANGED <<Registry, mu, source, files>>

\* r.mu.RLock() at the top of GetReadError
GetReadErrorRLock(t) ==
    /\ th[t].pc = "getOuter"
    /\ CanRLock(mu, t)
    /\ mu' = RLock(mu, t)
    /\ Goto(t, [th[t] EXCEPT !.pc = "get"])
    /\ UNCHANGED <<Registry, source, files, ncalls>>

\* (mutant) a lookup that reports a nil entry as found
LookupErrorAnyEntry(m, name) ==
    IF HasKey(m, name)
    THEN <<RuleError(m[name]), Nil>>
    ELSE <<Nil, ErrNotRegistered(name)>>

\* BadFs.getError(errMap, name): (error, error)
LookupError(m, name) ==
    IF HasKey(m, name) /\ RuleError(m[name]) # Nil
    THEN <<RuleError(m[name]), Nil>>
    ELSE <<Nil, ErrNotRegistered(name)>>

\* the body of BadFs.GetLatency: (time.Duration, error)
LookupLatency(m, name) ==
    IF HasKey(m, name) THEN <<m[name], Nil>> ELSE <<0, ErrNoLatency(name)>>

\* RLock, the lookup and the deferred RUnlock(s) of a query
GetRun(t) ==
    LET f == th[t]
        res == CASE f.op = "GetLatency" -> LookupLatency(latencies, f.name)
                 [] f.op = "GetWriteError" -> LookupError(writeErrors, f.name)
                 [] f.op = "GetReadError" -> LookupError(readErrors, f.name)
    IN
    /\ f.pc = "get"
    /\ CanRLock(mu, t)
    /\ mu' = [mu EXCEPT !.r[t] = 0]
    /\ Return(t, res[2], res[1])
    /\ UNCHANGED <<Registry, source, files, ncalls>>

(* ------------------------------------------------------------------ *)
(* Fault injector: delay, checkError                                  *)
(* ------------------------------------------------------------------ *)

Log(t, event) == Append(th[t].trace, event)

\* where a call goes on once delay(p) has returned: RemoveAll and MkdirAll
\* are ranging over the latencies, every other call checks its error next
AfterDelay(f) == IF f.op \in {"RemoveAll", "MkdirAll"} THEN "rangeLat" ELSE "check"

\* r.mu.Lock() in delay: the writer is announced
delayLock(t) ==
    /\ th[t].pc = "delay"
    /\ mu' = LockRequest(mu, t)
    /\ Goto(t, [th[t] EXCEPT !.pc = "delaying"])
    /\ UNCHANGED <<Registry, source, files, ncalls>>

\* Lock returns in delay; with a latency for the path the thread goes to
\* sleep inside the critical section, without one it unlocks and returns
delayRun(t) ==
    LET f == th[t] IN
    /\ f.pc = "delaying"
    /\ CanLock(mu, t)
    /\ IF HasKey(latencies, f.cur)
       THEN /\ mu' = LockAcquire(mu, t)
            /\ Goto(t, [th[t] EXCEPT !.pc = "sleep", !.lat = latencies[f.cur]])
       ELSE /\ mu' = Unlock(LockAcquire(mu, t), t)
            /\ Goto(t, [th[t] EXCEPT !.pc = AfterDelay(f)])
    /\ UNCHANGED <<Registry, source, files, ncalls>>

\* time.Sleep(latency) returns, then the deferred r.mu.Unlock()
delayWake(t) ==
    LET f == th[t] IN
    /\ f.pc = "sleep"
    /\ mu' = Unlock(mu, t)
    /\ Goto(t, [th[t] EXCEPT !.pc = AfterDelay(f),
                         !.trace = Log(t, <<"slept", f.cur, f.lat>>)])
    /\ UNCHANGED <<Registry, source, files, ncalls>>

\* BadFs.checkError(errMap, name): the rule's error, nil without a rule
checkError(m, name) ==
    IF HasKey(m, name) /\ RuleError(m[name]) # Nil THEN RuleError(m[name]) ELSE Nil

\* (mutant) the two error maps taken for each other
checkDirErrorSwapped(dir, name) ==
    IF dir = "write" THEN checkError(readErrors, name) ELSE checkError(writeErrors, name)

\* checkWriteError / checkReadError
checkDirError(dir, name) ==
    IF dir = "write" THEN checkError(writeErrors, name) ELSE checkError(readErrors, name)

\* r.mu.Lock() in checkError
checkErrorLock(t) ==
    /\ th[t].pc = "check"
    /\ mu' = LockRequest(mu, t)
    /\ Goto(t, [th[t] EXCEPT !.pc = "checking"])
    /\ UNCHANGED <<Registry, source, files, ncalls>>

\* what a call returns without calling the provider once its error check
\* has passed: the optional interface the provider lacks
Unsupported(f) ==
    CASE f.op = "SymlinkIfPossible" /\ ~source.linker -> ErrNoSymlink(f.name, f.name2)
      [] f.op = "ReadlinkIfPossible" /\ ~source.linkReader -> ErrNoReadlink(f.name)
      [] OTHER -> Nil

\* the zero results returned beside an injected error
ZeroVal(f) ==
    IF f.op = "LstatIfPossible" THEN <<Nil, source.lstater>>
    ELSE IF f.op = "ReadlinkIfPossible" THEN <<>>
    ELSE Nil

\* (mutant) a rule that is removed from its map when it fires
checkErrorRunConsumes(t) ==
    LET f == th[t]
        err == checkDirError(f.dir, f.cur)
        tr == Log(t, <<"check", f.dir, f.cur>>)
    IN
    /\ f.pc = "checking"
    /\ CanLock(mu, t)
    /\ mu' = Unlock(LockAcquire(mu, t), t)
    /\ IF err # Nil
       THEN Goto(t, [th[t] EXCEPT !.pc = "idle", !.ret = err,
                             !.val = ZeroVal(f), !.trace = tr])
       ELSE IF Unsupported(f) # Nil
       THEN Goto(t, [th[t] EXCEPT !.pc = "idle", !.ret = Unsupported(f),
                             !.val = ZeroVal(f), !.trace = tr])
       ELSE Goto(t, [th[t] EXCEPT !.pc = "src", !.trace = tr])
    /\ writeErrors' = IF err # Nil /\ f.dir = "write" THEN MapDel(writeErrors, f.cur) ELSE writeErrors
    /\ readErrors' = IF err # Nil /\ f.dir = "read" THEN MapDel(readErrors, f.cur) ELSE readErrors
    /\ UNCHANGED <<latencies, source, files, ncalls>>

\* (mutant) the missing capability reported before the rule's error
checkErrorRunCapabilityFirst(t) ==
    LET f == th[t]
        err == checkDirError(f.dir, f.cur)
        tr == Log(t, <<"check", f.dir, f.cur>>)
    IN
    /\ f.pc = "checking"
    /\ CanLock(mu, t)
    /\ mu' = Unlock(LockAcquire(mu, t), t)
    /\ IF Unsupported(f) # Nil
       THEN Goto(t, [th[t] EXCEPT !.pc = "idle", !.ret = Unsupported(f),
                             !.val = ZeroVal(f), !.trace = tr])
       ELSE IF err # Nil
       THEN Goto(t, [th[t] EXCEPT !.pc = "idle", !.ret = err,
                             !.val = ZeroVal(f), !.trace = tr])
       ELSE Goto(t, [th[t] EXCEPT !.pc = "src", !.trace = tr])
    /\ UNCHANGED <<Registry, source, files, ncalls>>

\* the critical section of checkError and the caller's `if err != nil`
checkErrorRun(t) ==
    LET f == th[t]
        err == checkDirError(f.dir, f.cur)
        tr == Log(t, <<"check", f.dir, f.cur>>)
    IN
    /\ f.pc = "checking"
    /\ CanLock(mu, t)
    /\ mu' = Unlock(LockAcquire(mu, t), t)
    /\ IF err # Nil
       THEN Goto(t, [th[t] EXCEPT !.pc = "idle", !.ret = err,
                             !.val = ZeroVal(f), !.trace = tr])
       ELSE IF Unsupported(f) # Nil
       THEN Goto(t, [th[t] EXCEPT !.pc = "idle", !.ret = Unsupported(f),
                             !.val = ZeroVal(f), !.trace = tr])
       ELSE Goto(t, [th[t] EXCEPT !.pc = "src", !.trace = tr])
    /\ UNCHANGED <<Registry, source, files, ncalls>>

(* ------------------------------------------------------------------ *)
(* Facade calls                                                       *)
(* ------------------------------------------------------------------ *)

\* writeOperation(name) / readOperation(name): normalize, delay, check
\* (mutant) a write operation that goes straight to its error check
writeOperationNoDelay(f) ==
    [f EXCEPT !.dir = "write", !.cur = normalizePath(f.name), !.pc = "check"]

writeOperation(f) ==
    [f EXCEPT !.dir = "write", !.cur = normalizePath(f.name), !.pc = "delay"]

\* (mutant) a read-classified call that runs the write check
readOperationAsWrite(f) == writeOperation(f)

readOperation(f) ==
    [f EXCEPT !.dir = "read", !.cur = normalizePath(f.name), !.pc = "delay"]

Chtimes(t, raw) ==
    /\ Begin(t, writeOperation(Frame("Chtimes", raw, normalizePath(raw), "delay")))
    /\ UNCHANGED <<Registry, mu, source, files>>

Chmod(t, raw) ==
    /\ Begin(t, writeOperation(Frame("Chmod", raw, normalizePath(raw), "delay")))
    /\ UNCHANGED <<Registry, mu, source, files>>

Chown(t, raw) ==
    /\ Begin(t, writeOperation(Frame("Chown", raw, normalizePath(raw), "delay")))
    /\ UNCHANGED <<Registry, mu, source, files>>

Stat(t, raw) ==
    /\ Begin(t, readOperation(Frame("Stat", raw, normalizePath(raw), "delay")))
    /\ UNCHANGED <<Registry, mu, source, files>>

LstatIfPossible(t, raw) ==
    /\ Begin(t, readOperation(Frame("LstatIfPossible", raw, normalizePath(raw), "delay")))
    /\ UNCHANGED <<Registry, mu, source, files>>

SymlinkIfPossible(t, raw, rawLink) ==
    /\ Begin(t, writeOperation(
            [Frame("SymlinkIfPossible", raw, normalizePath(raw), "delay")
                EXCEPT !.name2 = normalizePath(rawLink)]))
    /\ UNCHANGED <<Registry, mu, source, files>>

ReadlinkIfPossible(t, raw) ==
    /\ Begin(t, readOperation(Frame("ReadlinkIfPossible", raw, normalizePath(raw), "delay")))
    /\ UNCHANGED <<Registry, mu, source, files>>

\* (mutant) a Rename that runs the fault injector on n
RenameChecksNew(t, rawOld, rawNew) ==
    /\ Begin(t, [writeOperation(Frame("Rename", rawOld, normalizePath(rawNew), "delay"))
                    EXCEPT !.name = normalizePath(rawOld),
                           !.name2 = normalizePath(rawNew)])
    /\ UNCHANGED <<Registry, mu, source, files>>

\* Rename(o, n) runs the fault injector on o
Rename(t, rawOld, rawNew) ==
    /\ Begin(t, writeOperation(
            [Frame("Rename", rawOld, normalizePath(rawOld), "delay")
                EXCEPT !.name2 = normalizePath(rawNew)]))
    /\ UNCHANGED <<Registry, mu, source, files>>

Remove(t, raw) ==
    /\ Begin(t, writeOperation(Frame("Remove", raw, normalizePath(raw), "delay")))
    /\ UNCHANGED <<Registry, mu, source, files>>

Mkdir(t, raw) ==
    /\ Begin(t, writeOperation(Frame("Mkdir", raw, normalizePath(raw), "delay")))
    /\ UNCHANGED <<Registry, mu, source, files>>

\* os.O_* (linux)
O_RDONLY == 0
O_WRONLY == 1
O_RDWR == 2
O_CREATE == 64
O_EXCL == 128
O_TRUNC == 512
O_APPEND == 1024

RECURSIVE BitAnd(_, _)
BitAnd(a, b) ==
    IF a = 0 \/ b = 0 THEN 0
    ELSE (a % 2) * (b % 2) + 2 * BitAnd(a \div 2, b \div 2)

\* (mutant) a mask that looks at the access mode alone
isWriteAccessMode(flag) == BitAnd(flag, O_WRONLY + O_RDWR) # 0

\* flag&(os.O_WRONLY|syscall.O_RDWR|os.O_APPEND|os.O_CREATE|os.O_TRUNC) != 0
isWrite(flag) ==
    BitAnd(flag, O_WRONLY + O_RDWR + O_APPEND + O_CREATE + O_TRUNC) # 0

\* each flag alone, and os.O_RDWR|os.O_CREATE|os.O_TRUNC as os.Create passes
FlagInputs ==
    {O_RDONLY, O_WRONLY, O_RDWR, O_APPEND, O_CREATE, O_TRUNC, O_EXCL,
     O_RDWR + O_CREATE + O_TRUNC}

OpenOps == {"OpenFile", "Open", "Create"}

\* handles open or being opened stay within MaxFiles
CanOpen ==
    Len(files) + Cardinality({u \in Threads : th[u].pc # "idle" /\ th[u].op \in OpenOps})
        < MaxFiles

OpenFile(t, raw, flag) ==
    LET f == [Frame("OpenFile", raw, normalizePath(raw), "delay") EXCEPT !.arg = flag] IN
    /\ CanOpen
    /\ Begin(t, IF isWrite(flag) THEN writeOperation(f) ELSE readOperation(f))
    /\ UNCHANGED <<Registry, mu, source, files>>

Open(t, raw) ==
    /\ CanOpen
    /\ Begin(t, readOperation(Frame("Open", raw, normalizePath(raw), "delay")))
    /\ UNCHANGED <<Registry, mu, source, files>>

\* Create hands its argument on as it got it: writeOperation normalizes it
\* for the fault injector, the provider and the map lookups get it raw
Create(t, raw) ==
    /\ CanOpen
    /\ Begin(t, writeOperation(Frame("Create", raw, raw, "delay")))
    /\ UNCHANGED <<Registry, mu, source, files>>

\* p == path || strings.HasPrefix(p, path+afero.FilePathSeparator)
PathMatches(p, path) == p = path \/ HasPrefix(p, path \o FilePathSeparator)

RemoveAll(t, raw) ==
    /\ Begin(t, [Frame("RemoveAll", raw, normalizePath(raw), "getLatencies")
                    EXCEPT !.dir = "write"])
    /\ UNCHANGED <<Registry, mu, source, files>>

MkdirAll(t, raw) ==
    /\ Begin(t, [Frame("MkdirAll", raw, normalizePath(raw), "getLatencies")
                    EXCEPT !.dir = "write"])
    /\ UNCHANGED <<Registry, mu, source, files>>

\* getLatencies(): the map itself is returned under the read lock, and the
\* range that follows runs on the live map, unlocked. todo holds the keys
\* at or under the path that are in the map when the range starts: the
\* range produces each of them unless it is deleted first
getLatencies(t) ==
    LET f == th[t] IN
    /\ f.pc = "getLatencies"
    /\ CanRLock(mu, t)
    /\ mu' = RUnlock(RLock(mu, t), t)
    /\ Goto(t, [th[t] EXCEPT !.pc = "rangeLat", !.seen = {},
                         !.todo = {p \in DOMAIN latencies : PathMatches(p, f.name)}])
    /\ UNCHANGED <<Registry, source, files, ncalls>>

\* one round of `for p := range r.getLatencies()`: delay(p) for a key of
\* the live map at or under the path that the range has not produced yet,
\* in any order. A key added since the range started may be produced or
\* skipped; the range ends, and getWriteErrors() follows, once every key
\* it started with has been produced or deleted
rangeLatencies(t) ==
    LET f == th[t]
        fresh == {p \in DOMAIN latencies : PathMatches(p, f.name)} \ f.seen
    IN
    /\ f.pc = "rangeLat"
    /\ \/ /\ f.todo = {}
          /\ Goto(t, [th[t] EXCEPT !.pc = "getWriteErrors"])
       \/ \E p \in fresh :
             Goto(t, [th[t] EXCEPT !.pc = "delay", !.cur = p,
                              !.todo = @ \ {p}, !.seen = @ \cup {p}])
    /\ UNCHANGED <<Registry, mu, source, files, ncalls>>

\* getWriteErrors(): as getLatencies; todo holds the keys at or under the
\* path that are in the map when the range starts
getWriteErrors(t) ==
    LET f == th[t] IN
    /\ f.pc = "getWriteErrors"
    /\ CanRLock(mu, t)
    /\ mu' = RUnlock(RLock(mu, t), t)
    /\ Goto(t, [th[t] EXCEPT !.pc = "rangeErr", !.seen = {},
                         !.todo = {p \in DOMAIN writeErrors : PathMatches(p, f.name)}])
    /\ UNCHANGED <<Registry, source, files, ncalls>>

\* `for p, err := range r.getWriteErrors()` over the live map, unlocked:
\* the first key the range produces at or under the path ends the call
\* with its entry, whatever the entry holds; the order of a map range is
\* not fixed. A key added since the range started may be produced or
\* skipped; the range ends without a hit, and the provider is called, once
\* every key it started with has been deleted
rangeWriteErrors(t) ==
    LET f == th[t]
        hits == {p \in DOMAIN writeErrors : PathMatches(p, f.name)}
    IN
    /\ f.pc = "rangeErr"
    /\ \/ /\ f.todo = {}
          /\ Goto(t, [th[t] EXCEPT !.pc = "src",
                              !.trace = Log(t, <<"scan", "write", f.name>>)])
       \/ \E p \in hits :
             Goto(t, [th[t] EXCEPT !.pc = "idle", !.ret = RuleError(writeErrors[p]),
                              !.cur = p, !.todo = {},
                              !.trace = Log(t, <<"scan", "write", f.name>>)])
    /\ UNCHANGED <<Registry, mu, source, files, ncalls>>

(* ------------------------------------------------------------------ *)
(* The wrapped provider                                               *)
(* ------------------------------------------------------------------ *)

\* what a provider call returns: a value and no error, or an error
SrcResults == {<<"srcVal", Nil>>, <<Nil, SrcErr>>}

\* (mutant) an lstat that is always passed to the provider as LstatIfPossible
SourceOpNoFallback(f) == f.op

\* the provider method a call delegates to
SourceOp(f) ==
    IF f.op = "LstatIfPossible" /\ ~source.lstater THEN "Stat" ELSE f.op

\* what the facade returns beside the provider's error
SourceVal(f, res) ==
    CASE f.op = "LstatIfPossible" -> <<res[1], source.lstater>>
      [] f.op = "ReadlinkIfPossible" -> IF res[2] = Nil THEN <<"l", "n", "k">> ELSE <<>>
      [] f.op = "Stat" -> res[1]
      [] OTHER -> Nil

\* m[dst] = m[src]: an absent source key reads as the zero value
copyEntry(m, src, dst, zero) == MapSet(m, dst, IF HasKey(m, src) THEN m[src] ELSE zero)

\* (mutant) a symlink whose rules are copied whatever the provider answers
SourceCallCopiesAlways(t) ==
    LET f == th[t]
        tr == Log(t, <<"src", SourceOp(f), f.name, f.name2>>)
        link == f.op = "SymlinkIfPossible"
    IN
    /\ f.pc = "src"
    /\ \E res \in SrcResults :
         IF res[2] = Nil /\ f.op \in OpenOps
         THEN Goto(t, [th[t] EXCEPT !.pc = "wrap", !.trace = tr])
         ELSE Goto(t, [th[t] EXCEPT !.pc = "idle", !.ret = res[2],
                               !.val = SourceVal(f, res), !.trace = tr])
    /\ writeErrors' = IF link THEN copyEntry(writeErrors, f.name, f.name2, NilRule) ELSE writeErrors
    /\ readErrors' = IF link THEN copyEntry(readErrors, f.name, f.name2, NilRule) ELSE readErrors
    /\ latencies' = IF link THEN copyEntry(latencies, f.name, f.name2, 0) ELSE latencies
    /\ UNCHANGED <<mu, source, files, ncalls>>

\* r.source.<Op>(...) and what the caller does with the result: a file
\* that was opened is wrapped next, a link that was made has its rules
\* copied next, everything else is returned as it is
SourceCall(t) ==
    LET f == th[t]
        tr == Log(t, <<"src", SourceOp(f), f.name, f.name2>>)
    IN
    /\ f.pc = "src"
    /\ \E res \in SrcResults :
         IF res[2] = Nil /\ f.op \in OpenOps
         THEN Goto(t, [th[t] EXCEPT !.pc = "wrap", !.trace = tr])
         ELSE IF res[2] = Nil /\ f.op = "SymlinkIfPossible"
         THEN Goto(t, [th[t] EXCEPT !.pc = "copyWriteGet", !.trace = tr])
         ELSE Goto(t, [th[t] EXCEPT !.pc = "idle", !.ret = res[2],
                               !.val = SourceVal(f, res), !.trace = tr])
    /\ UNCHANGED <<Registry, mu, source, files, ncalls>>

(* ------------------------------------------------------------------ *)
(* copyErrors                                                         *)
(* ------------------------------------------------------------------ *)

\* r.writeErrors[dst] = r.writeErrors[src], with no lock held: the right
\* side is read, then the left side is assigned
copyWriteErrors(t) ==
    LET f == th[t] IN
    \/ /\ f.pc = "copyWriteGet"
       /\ Goto(t, [th[t] EXCEPT !.pc = "copyWrite", !.tmp = ErrAt(writeErrors, f.name)])
       /\ UNCHANGED <<Registry, mu, source, files, ncalls>>
    \/ /\ f.pc = "copyWrite"
       /\ writeErrors' = MapSet(writeErrors, f.name2, f.tmp)
       /\ Goto(t, [th[t] EXCEPT !.pc = "copyReadGet", !.tmp = <<>>])
       /\ UNCHANGED <<readErrors, latencies, mu, source, files, ncalls>>

\* r.readErrors[dst] = r.readErrors[src]
copyReadErrors(t) ==
    LET f == th[t] IN
    \/ /\ f.pc = "copyReadGet"
       /\ Goto(t, [th[t] EXCEPT !.pc = "copyRead", !.tmp = ErrAt(readErrors, f.name)])
       /\ UNCHANGED <<Registry, mu, source, files, ncalls>>
    \/ /\ f.pc = "copyRead"
       /\ readErrors' = MapSet(readErrors, f.name2, f.tmp)
       /\ Goto(t, [th[t] EXCEPT !.pc = "copyLatencyGet", !.tmp = <<>>])
       /\ UNCHANGED <<writeErrors, latencies, mu, source, files, ncalls>>

\* r.latencies[dst] = r.latencies[src]; return nil
copyLatencies(t) ==
    LET f == th[t] IN
    \/ /\ f.pc = "copyLatencyGet"
       /\ Goto(t, [th[t] EXCEPT !.pc = "copyLatency", !.tmp = LatAt(latencies, f.name)])
       /\ UNCHANGED <<Registry, mu, source, files, ncalls>>
    \/ /\ f.pc = "copyLatency"
       /\ latencies' = MapSet(latencies, f.name2, f.tmp)
       /\ Goto(t, [th[t] EXCEPT !.pc = "idle", !.ret = Nil, !.val = Nil, !.tmp = <<>>])
       /\ UNCHANGED <<writeErrors, readErrors, mu, source, files, ncalls>>

(* ------------------------------------------------------------------ *)
(* BadFile                                                            *)
(* ------------------------------------------------------------------ *)

\* NewBadFile(goodFile, readError, writeError, latency); closed records
\* that a Close of the wrapped file has returned nil
NewBadFile(goodFile, readError, writeError, latency) ==
    [sourceFile |-> goodFile, writeError |-> writeError, readError |-> readError,
     latency |-> latency,
     mu |-> [w |-> None, pend |-> {}, r |-> [t \in Threads |-> 0]],
     closed |-> FALSE]

\* return NewBadFile(sourceFile, r.readErrors[name], r.writeErrors[name],
\* r.latencies[name]), nil: the three maps are read one after the other,
\* without the lock
wrapFile(t) ==
    LET f == th[t] IN
    \/ /\ f.pc = "wrap"
       /\ Goto(t, [th[t] EXCEPT !.pc = "wrapWrite",
                            !.tmp = <<RuleError(ErrAt(readErrors, f.name))>>])
       /\ UNCHANGED <<Registry, mu, source, files, ncalls>>
    \/ /\ f.pc = "wrapWrite"
       /\ Goto(t, [th[t] EXCEPT !.pc = "wrapLatency",
                            !.tmp = Append(@, RuleError(ErrAt(writeErrors, f.name)))])
       /\ UNCHANGED <<Registry, mu, source, files, ncalls>>
    \/ /\ f.pc = "wrapLatency"
       /\ files' = Append(files, NewBadFile(f.name, f.tmp[1], f.tmp[2],
                                            LatAt(latencies, f.name)))
       /\ Goto(t, [th[t] EXCEPT !.pc = "idle", !.ret = Nil, !.val = Len(files) + 1,
                            !.tmp = <<>>])
       /\ UNCHANGED <<Registry, mu, source, ncalls>>

Handles == 1..Len(files)

FileReadOps == {"Readdirnames", "Readdir", "FileStat", "Read", "ReadAt", "Seek"}
FileWriteOps == {"Close", "Sync", "Truncate", "Write", "WriteAt", "WriteString"}
\* the operations that return a count or an offset
FileCountOps == {"Read", "ReadAt", "Seek", "Write", "WriteAt", "WriteString"}
FileOps == FileReadOps \cup FileWriteOps \cup {"FileName"}

\* (mutant) a Name that goes to the wrapped file at once
FileCallNameSkipsDelay(t, h, op) ==
    /\ h \in Handles
    /\ Begin(t, [Frame(op, <<>>, files[h].sourceFile,
                        IF op = "FileName" THEN "fsrc" ELSE "fdelay") EXCEPT !.arg = h])
    /\ UNCHANGED <<Registry, mu, source, files>>

\* a handle operation starts with b.delay()
FileCall(t, h, op) ==
    /\ h \in Handles
    /\ Begin(t, [Frame(op, <<>>, files[h].sourceFile, "fdelay") EXCEPT !.arg = h])
    /\ UNCHANGED <<Registry, mu, source, files>>

Close(t, h) == FileCall(t, h, "Close")
FileName(t, h) == FileCall(t, h, "FileName")
Readdirnames(t, h) == FileCall(t, h, "Readdirnames")
Readdir(t, h) == FileCall(t, h, "Readdir")
FileStat(t, h) == FileCall(t, h, "FileStat")
Sync(t, h) == FileCall(t, h, "Sync")
Truncate(t, h) == FileCall(t, h, "Truncate")
Write(t, h) == FileCall(t, h, "Write")
WriteAt(t, h) == FileCall(t, h, "WriteAt")
WriteString(t, h) == FileCall(t, h, "WriteString")
Read(t, h) == FileCall(t, h, "Read")
ReadAt(t, h) == FileCall(t, h, "ReadAt")
Seek(t, h) == FileCall(t, h, "Seek")

\* b.mu.Lock() in BadFile.delay
fileDelayLock(t) ==
    LET h == th[t].arg IN
    /\ th[t].pc = "fdelay"
    /\ files' = [files EXCEPT ![h].mu = LockRequest(@, t)]
    /\ Goto(t, [th[t] EXCEPT !.pc = "fdelaying"])
    /\ UNCHANGED <<Registry, mu, source, ncalls>>

\* where a handle operation goes on after delay: Name has no error check
AfterFileDelay(f) == IF f.op = "FileName" THEN "fsrc" ELSE "fcheck"

\* Lock returns in BadFile.delay: if b.latency > 0 the thread sleeps inside
\* the critical section
fileDelayRun(t) ==
    LET f == th[t]
        h == f.arg
    IN
    /\ f.pc = "fdelaying"
    /\ CanLock(files[h].mu, t)
    /\ IF files[h].latency > 0
       THEN /\ files' = [files EXCEPT ![h].mu = LockAcquire(@, t)]
            /\ Goto(t, [th[t] EXCEPT !.pc = "fsleep", !.lat = files[h].latency])
       ELSE /\ files' = [files EXCEPT ![h].mu = Unlock(LockAcquire(@, t), t)]
            /\ Goto(t, [th[t] EXCEPT !.pc = AfterFileDelay(f)])
    /\ UNCHANGED <<Registry, mu, source, ncalls>>

\* time.Sleep(b.latency) returns, then the deferred b.mu.Unlock()
fileDelayWake(t) ==
    LET f == th[t]
        h == f.arg
    IN
    /\ f.pc = "fsleep"
    /\ files' = [files EXCEPT ![h].mu = Unlock(@, t)]
    /\ Goto(t, [th[t] EXCEPT !.pc = AfterFileDelay(f),
                         !.trace = Log(t, <<"slept", h, f.lat>>)])
    /\ UNCHANGED <<Registry, mu, source, ncalls>>

\* (mutant) a handle that looks its error up in the registry at each call
fileErrorFromRegistry(b, op) ==
    RuleError(ErrAt(IF op \in FileWriteOps THEN writeErrors ELSE readErrors, b.sourceFile))

\* getWriteError() / getReadError() of the operation's direction
fileError(b, op) == IF op \in FileWriteOps THEN b.writeError ELSE b.readError

\* (mutant) a handle operation that calls the wrapped file whatever its
\* error check finds
fileCheckIgnored(t) ==
    /\ th[t].pc = "fcheck"
    /\ Goto(t, [th[t] EXCEPT !.pc = "fsrc", !.trace = Log(t, <<"check", th[t].arg>>)])
    /\ UNCHANGED <<Registry, mu, source, files, ncalls>>

\* `if err := b.get...Error(); err != nil { return ..., err }`: the field
\* is read without the handle's lock
fileCheck(t) ==
    LET f == th[t]
        err == fileError(files[f.arg], f.op)
        tr == Log(t, <<"check", f.arg>>)
    IN
    /\ f.pc = "fcheck"
    /\ IF err # Nil
       THEN Goto(t, [th[t] EXCEPT !.pc = "idle", !.ret = err, !.trace = tr,
                             !.val = IF f.op \in FileCountOps THEN -1 ELSE Nil])
       ELSE Goto(t, [th[t] EXCEPT !.pc = "fsrc", !.trace = tr])
    /\ UNCHANGED <<Registry, mu, source, files, ncalls>>

\* b.sourceFile.<Op>(...): the handle returns whatever the wrapped file
\* answers, a result or an error; Name has no error to return
fileSourceCall(t) ==
    LET f == th[t]
        h == f.arg
        tr == Log(t, <<"fsrc", f.op, h>>)
    IN
    /\ f.pc = "fsrc"
    /\ IF f.op = "FileName"
       THEN /\ Goto(t, [th[t] EXCEPT !.pc = "idle", !.ret = Nil, !.trace = tr,
                                 !.val = files[h].sourceFile])
            /\ files' = files
       ELSE \E res \in SrcResults :
            /\ Goto(t, [th[t] EXCEPT !.pc = "idle", !.ret = res[2], !.trace = tr,
                                 !.val = IF f.op = "Close" THEN Nil ELSE res[1]])
            /\ files' = IF f.op = "Close" /\ res[2] = Nil
                        THEN [files EXCEPT ![h].closed = TRUE]
                        ELSE files
    /\ UNCHANGED <<Registry, mu, source, ncalls>>

\* BadFile.AddLatency refuses a negative latency before it takes the lock
FileLatencyRefused(latency) == latency < 0

FileAddLatency(t, h, latency) ==
    /\ h \in Handles
    /\ Begin(t, [Frame("FileAddLatency", <<>>, files[h].sourceFile,
                        IF FileLatencyRefused(latency) THEN "refused" ELSE "flock")
                    EXCEPT !.arg = h, !.lat = latency])
    /\ UNCHANGED <<Registry, mu, source, files>>

FileAddWriteError(t, h, err) ==
    /\ h \in Handles
    /\ Begin(t, [Frame("FileAddWriteError", <<>>, files[h].sourceFile, "flock")
                    EXCEPT !.arg = h, !.dir = err])
    /\ UNCHANGED <<Registry, mu, source, files>>

FileDelWriteError(t, h) ==
    /\ h \in Handles
    /\ Begin(t, [Frame("FileDelWriteError", <<>>, files[h].sourceFile, "flock")
                    EXCEPT !.arg = h])
    /\ UNCHANGED <<Registry, mu, source, files>>

FileAddReadError(t, h, err) ==
    /\ h \in Handles
    /\ Begin(t, [Frame("FileAddReadError", <<>>, files[h].sourceFile, "flock")
                    EXCEPT !.arg = h, !.dir = err])
    /\ UNCHANGED <<Registry, mu, source, files>>

FileDelReadError(t, h) ==
    /\ h \in Handles
    /\ Begin(t, [Frame("FileDelReadError", <<>>, files[h].sourceFile, "flock")
                    EXCEPT !.arg = h])
    /\ UNCHANGED <<Registry, mu, source, files>>

\* b.mu.Lock() of a handle mutator
fileMutatorLock(t) ==
    LET h == th[t].arg IN
    /\ th[t].pc = "flock"
    /\ files' = [files EXCEPT ![h].mu = LockRequest(@, t)]
    /\ Goto(t, [th[t] EXCEPT !.pc = "flocking"])
    /\ UNCHANGED <<Registry, mu, source, ncalls>>

\* (mutant) handle mutators whose DelWriteError leaves the error in place
fileMutateKeepsWriteError(b, f) ==
    CASE f.op = "FileAddLatency" -> [b EXCEPT !.latency = f.lat]
      [] f.op = "FileAddWriteError" -> [b EXCEPT !.writeError = f.dir]
      [] f.op = "FileDelWriteError" -> b
      [] f.op = "FileAddReadError" -> [b EXCEPT !.readError = f.dir]
      [] f.op = "FileDelReadError" -> [b EXCEPT !.readError = Nil]

\* the assignment of a handle mutator
fileMutate(b, f) ==
    CASE f.op = "FileAddLatency" -> [b EXCEPT !.latency = f.lat]
      [] f.op = "FileAddWriteError" -> [b EXCEPT !.writeError = f.dir]
      [] f.op = "FileDelWriteError" -> [b EXCEPT !.writeError = Nil]
      [] f.op = "FileAddReadError" -> [b EXCEPT !.readError = f.dir]
      [] f.op = "FileDelReadError" -> [b EXCEPT !.readError = Nil]

\* the critical section of a handle mutator
fileMutatorRun(t) ==
    LET f == th[t]
        h == f.arg
        b == fileMutate(files[h], f)
    IN
    /\ f.pc = "flocking"
    /\ CanLock(files[h].mu, t)
    /\ files' = [files EXCEPT ![h] = [b EXCEPT !.mu = Unlock(LockAcquire(@, t), t)]]
    /\ Return(t, Nil, Nil)
    /\ UNCHANGED <<Registry, mu, source, ncalls>>

FileGetLatency(t, h) ==
    /\ h \in Handles
    /\ Begin(t, [Frame("FileGetLatency", <<>>, files[h].sourceFile, "fget")
                    EXCEPT !.arg = h])
    /\ UNCHANGED <<Registry, mu, source, files>>

\* b.mu.RLock(); return b.latency
fileGetLatencyRun(t) ==
    LET f == th[t]
        h == f.arg
    IN
    /\ f.pc = "fget"
    /\ CanRLock(files[h].mu, t)
    /\ Return(t, Nil, files[h].latency)
    /\ UNCHANGED <<Registry, mu, source, files, ncalls>>

(* ------------------------------------------------------------------ *)
(* Specifications                                                     *)
(* ------------------------------------------------------------------ *)

\* the steps of a call in progress
Step(t) ==
    \/ AddLatencyRefuse(t)
    \/ MutatorLock(t)
    \/ MutatorRun(t)
    \/ GetReadErrorRLock(t)
    \/ GetRun(t)
    \/ delayLock(t)
    \/ delayRun(t)
    \/ delayWake(t)
    \/ checkErrorLock(t)
    \/ checkErrorRun(t)
    \/ getLatencies(t)
    \/ rangeLatencies(t)
    \/ getWriteErrors(t)
    \/ rangeWriteErrors(t)
    \/ SourceCall(t)
    \/ copyWriteErrors(t)
    \/ copyReadErrors(t)
    \/ copyLatencies(t)
    \/ wrapFile(t)

\* the steps of a handle call in progress
FileStep(t) ==
    \/ fileDelayLock(t)
    \/ fileDelayRun(t)
    \/ fileDelayWake(t)
    \/ fileCheck(t)
    \/ fileSourceCall(t)
    \/ fileMutatorLock(t)
    \/ fileMutatorRun(t)
    \/ fileGetLatencyRun(t)

\* the administrative interface, on the paths R
RegistryCall(t, R) ==
    \E raw \in R :
        \/ \E err \in ErrInputs : AddWriteError(t, raw, err)
        \/ DelWriteError(t, raw)
        \/ \E err \in ErrInputs : AddReadError(t, raw, err)
        \/ DelReadError(t, raw)
        \/ \E latency \in LatencyInputs : AddLatency(t, raw, latency)
        \/ DelLatency(t, raw)
        \/ GetLatency(t, raw)
        \/ GetWriteError(t, raw)
        \/ GetReadError(t, raw)

\* the afero.Fs interface, on the paths R
FacadeCall(t, R) ==
    \E raw \in R :
        \/ Chtimes(t, raw)
        \/ Chmod(t, raw)
        \/ Chown(t, raw)
        \/ Stat(t, raw)
        \/ LstatIfPossible(t, raw)
        \/ \E rawLink \in R : SymlinkIfPossible(t, raw, rawLink)
        \/ ReadlinkIfPossible(t, raw)
        \/ \E rawNew \in R : Rename(t, raw, rawNew)
        \/ RemoveAll(t, raw)
        \/ Remove(t, raw)
        \/ \E flag \in FlagInputs : OpenFile(t, raw, flag)
        \/ Open(t, raw)
        \/ Mkdir(t, raw)
        \/ MkdirAll(t, raw)
        \/ Create(t, raw)

\* the afero.File interface and the handle's own mutators
HandleCall(t) ==
    \E h \in 1..MaxFiles :
        \/ Close(t, h)
        \/ FileName(t, h)
        \/ Readdirnames(t, h)
        \/ Readdir(t, h)
        \/ FileStat(t, h)
        \/ Sync(t, h)
        \/ Truncate(t, h)
        \/ Write(t, h)
        \/ WriteAt(t, h)
        \/ WriteString(t, h)
        \/ Read(t, h)
        \/ ReadAt(t, h)
        \/ Seek(t, h)
        \/ \E latency \in LatencyInputs : FileAddLatency(t, h, latency)
        \/ FileGetLatency(t, h)
        \/ \E err \in ErrInputs : FileAddWriteError(t, h, err)
        \/ FileDelWriteError(t, h)
        \/ \E err \in ErrInputs : FileAddReadError(t, h, err)
        \/ FileDelReadError(t, h)

\* "/a", "/a/" and "/b"
SeqPaths == { <<"/", "a">>, <<"/", "a", "/">>, <<"/", "b">> }

\* one caller of the registry and of the filesystem facade
Next ==
    \/ Step("t1")
    \/ RegistryCall("t1", SeqPaths)
    \/ FacadeCall("t1", SeqPaths)

Spec == Init /\ [][Next]_vars

\* "/a"
FilePaths == { <<"/", "a">> }

InitFile == Harness(MaxFileCalls, FALSE) /\ \E src \in Providers : New(src)

\* one caller of the registry, of the facade and of the handles it opened
NextFile ==
    \/ Step("t1")
    \/ FileStep("t1")
    \/ RegistryCall("t1", FilePaths)
    \/ FacadeCall("t1", FilePaths)
    \/ HandleCall("t1")

SpecFile == InitFile /\ [][NextFile]_vars

\* "/a/"
ScenarioPaths == { <<"/", "a", "/">> }

InitScenario ==
    /\ Harness(MaxScenarioCalls, TRUE)
    /\ New([linker |-> TRUE, linkReader |-> TRUE, lstater |-> TRUE])

\* one caller that creates and removes files and sets, clears and queries write errors;
\* every call that returns is recorded in log
NextScenario ==
    \/ MutatorLock("t1")
    \/ MutatorRun("t1")
    \/ GetRun("t1")
    \/ delayLock("t1")
    \/ delayRun("t1")
    \/ checkErrorLock("t1")
    \/ checkErrorRun("t1")
    \/ SourceCall("t1")
    \/ wrapFile("t1")
    \/ \E raw \in ScenarioPaths :
          \/ Create("t1", raw)
          \/ Remove("t1", raw)
          \/ \E err \in ErrInputs : AddWriteError("t1", raw, err)
          \/ DelWriteError("t1", raw)
          \/ GetWriteError("t1", raw)

SpecScenario == InitScenario /\ [][NextScenario]_vars

\* the errors the caller sets on a handle: one error, and nil
HandleErrInputs == {"e1", Nil}

InitHandle ==
    /\ Harness(MaxHandleCalls, TRUE)
    /\ New([linker |-> TRUE, linkReader |-> TRUE, lstater |-> TRUE])

\* one caller that creates "/a" and reads, writes and closes the handle
\* while it sets and clears the handle's errors; every call that returns
\* is recorded in log
NextHandle ==
    \/ delayLock("t1")
    \/ delayRun("t1")
    \/ checkErrorLock("t1")
    \/ checkErrorRun("t1")
    \/ SourceCall("t1")
    \/ wrapFile("t1")
    \/ fileDelayLock("t1")
    \/ fileDelayRun("t1")
    \/ fileCheck("t1")
    \/ fileSourceCall("t1")
    \/ fileMutatorLock("t1")
    \/ fileMutatorRun("t1")
    \/ \E raw \in FilePaths : Create("t1", raw)
    \/ \E h \in 1..MaxFiles :
          \/ Close("t1", h)
          \/ Write("t1", h)
          \/ Read("t1", h)
          \/ \E err \in HandleErrInputs : FileAddWriteError("t1", h, err)
          \/ FileDelWriteError("t1", h)
          \/ \E err \in HandleErrInputs : FileAddReadError("t1", h, err)
          \/ FileDelReadError("t1", h)

SpecHandle == InitHandle /\ [][NextHandle]_vars

InitShared ==
    /\ Harness(MaxSharedCalls, FALSE)
    /\ New([linker |-> TRUE, linkReader |-> TRUE, lstater |-> TRUE])

\* two goroutines that create "/a" and then write to, read from and change
\* the fault state of the handles, interleaved at every lock operation of
\* the handle and at every field access made outside its lock
NextShared ==
    \E t \in Threads :
        \/ delayLock(t)
        \/ delayRun(t)
        \/ checkErrorLock(t)
        \/ checkErrorRun(t)
        \/ SourceCall(t)
        \/ wrapFile(t)
        \/ AddLatencyRefuse(t)
        \/ FileStep(t)
        \/ \E raw \in FilePaths : Create(t, raw)
        \/ \E h \in 1..MaxFiles :
              \/ Write(t, h)
              \/ Read(t, h)
              \/ \E err \in HandleErrInputs : FileAddWriteError(t, h, err)
              \/ FileDelReadError(t, h)
              \/ \E latency \in LatencyInputs : FileAddLatency(t, h, latency)
              \/ FileGetLatency(t, h)

SpecShared == InitShared /\ [][NextShared]_vars

\* "/a/" and "/b"
RegistryPaths == { <<"/", "a", "/">>, <<"/", "b">> }

InitRegistry ==
    /\ Harness(MaxRegistryCalls, TRUE)
    /\ New([linker |-> TRUE, linkReader |-> TRUE, lstater |-> TRUE])

\* one caller of Add*, Del* and Get* alone; every call that returns is
\* recorded in log
NextRegistry ==
    \/ AddLatencyRefuse("t1")
    \/ MutatorLock("t1")
    \/ MutatorRun("t1")
    \/ GetReadErrorRLock("t1")
    \/ GetRun("t1")
    \/ RegistryCall("t1", RegistryPaths)

SpecRegistry == InitRegistry /\ [][NextRegistry]_vars

\* the positive latencies
PositiveLatencies == {latency \in LatencyInputs : ~LatencyRefused(latency)}

\* "/a" and "/b"
ConcPaths == { <<"/", "a">>, <<"/", "b">> }

InitConc ==
    /\ Harness(MaxConcCalls, FALSE)
    /\ New([linker |-> TRUE, linkReader |-> TRUE, lstater |-> TRUE])

\* two goroutines that register latencies and write errors, query them
\* and call Stat, Mkdir, Symlink, Open and RemoveAll, interleaved at every
\* lock operation and at every map access made outside the lock; the
\* latency and the write error of "/a/b" are set and deleted while
\* RemoveAll("/a") ranges over the maps, and read errors are registered
\* while a link copies them
NextConc ==
    \E t \in Threads :
        \/ AddLatencyRefuse(t)
        \/ MutatorLock(t)
        \/ MutatorRun(t)
        \/ GetReadErrorRLock(t)
        \/ GetRun(t)
        \/ delayLock(t)
        \/ delayRun(t)
        \/ delayWake(t)
        \/ checkErrorLock(t)
        \/ checkErrorRun(t)
        \/ SourceCall(t)
        \/ copyWriteErrors(t)
        \/ copyReadErrors(t)
        \/ copyLatencies(t)
        \/ wrapFile(t)
        \/ getLatencies(t)
        \/ rangeLatencies(t)
        \/ getWriteErrors(t)
        \/ rangeWriteErrors(t)
        \/ \E latency \in PositiveLatencies : AddLatency(t, <<"/", "a", "/", "b">>, latency)
        \/ DelLatency(t, <<"/", "a", "/", "b">>)
        \/ AddWriteError(t, <<"/", "a", "/", "b">>, "e1")
        \/ DelWriteError(t, <<"/", "a", "/", "b">>)
        \/ \E raw \in ConcPaths : AddReadError(t, raw, "e1")
        \/ \E raw \in ConcPaths :
              \/ \E latency \in LatencyInputs : AddLatency(t, raw, latency)
              \/ \E err \in ErrInputs : AddWriteError(t, raw, err)
              \/ GetLatency(t, raw)
              \/ GetWriteError(t, raw)
              \/ GetReadError(t, raw)
              \/ Stat(t, raw)
              \/ Mkdir(t, raw)
              \/ \E rawLink \in ConcPaths : SymlinkIfPossible(t, raw, rawLink)
              \/ Open(t, raw)
              \/ RemoveAll(t, raw)

SpecConc == InitConc /\ [][NextConc]_vars

\* "/", "/d", "/d/f", "/dx", "." and "f"
TreePaths ==
    { <<"/">>, <<"/", "d">>, <<"/", "d", "/", "f">>, <<"/", "d", "x">>,
      <<".">>, <<"f">> }

InitTree == Harness(MaxTreeCalls, FALSE) /\ \E src \in Providers : New(src)

\* one caller that registers write errors and latencies on the paths of a
\* tree and calls RemoveAll and MkdirAll on them
NextTree ==
    \/ AddLatencyRefuse("t1")
    \/ MutatorLock("t1")
    \/ MutatorRun("t1")
    \/ getLatencies("t1")
    \/ rangeLatencies("t1")
    \/ delayLock("t1")
    \/ delayRun("t1")
    \/ delayWake("t1")
    \/ getWriteErrors("t1")
    \/ rangeWriteErrors("t1")
    \/ SourceCall("t1")
    \/ \E raw \in TreePaths :
          \/ \E err \in ErrInputs : AddWriteError("t1", raw, err)
          \/ \E latency \in LatencyInputs : AddLatency("t1", raw, latency)
          \/ RemoveAll("t1", raw)
          \/ MkdirAll("t1", raw)

SpecTree == InitTree /\ [][NextTree]_vars

\* "/a" and "/./a/"
AliasPaths == { <<"/", "a">>, <<"/", ".", "/", "a", "/">> }

InitAlias ==
    /\ Harness(MaxAliasCalls, TRUE)
    /\ New([linker |-> TRUE, linkReader |-> TRUE, lstater |-> TRUE])

\* one caller that registers, clears and queries rules and calls Stat and
\* Mkdir under two spellings of one path; every call that returns is
\* recorded in log
NextAlias ==
    \/ MutatorLock("t1")
    \/ MutatorRun("t1")
    \/ GetReadErrorRLock("t1")
    \/ GetRun("t1")
    \/ delayLock("t1")
    \/ delayRun("t1")
    \/ delayWake("t1")
    \/ checkErrorLock("t1")
    \/ checkErrorRun("t1")
    \/ SourceCall("t1")
    \/ \E raw \in AliasPaths :
          \/ \E err \in Errors : AddWriteError("t1", raw, err)
          \/ DelWriteError("t1", raw)
          \/ GetWriteError("t1", raw)
          \/ \E err \in Errors : AddReadError("t1", raw, err)
          \/ DelReadError("t1", raw)
          \/ GetReadError("t1", raw)
          \/ \E latency \in PositiveLatencies : AddLatency("t1", raw, latency)
          \/ DelLatency("t1", raw)
          \/ GetLatency("t1", raw)
          \/ Stat("t1", raw)
          \/ Mkdir("t1", raw)

SpecAlias == InitAlias /\ [][NextAlias]_vars

InitClone ==
    /\ Harness(MaxCloneCalls, TRUE)
    /\ New([linker |-> TRUE, linkReader |-> TRUE, lstater |-> TRUE])

\* two goroutines: links "/b" -> "/a" are made while write errors and
\* latencies are registered and removed on "/a"; every call that returns
\* is recorded in log, in the order of the returns
NextClone ==
    \E t \in Threads :
        \/ MutatorLock(t)
        \/ MutatorRun(t)
        \/ delayLock(t)
        \/ delayRun(t)
        \/ delayWake(t)
        \/ checkErrorLock(t)
        \/ checkErrorRun(t)
        \/ SourceCall(t)
        \/ copyWriteErrors(t)
        \/ copyReadErrors(t)
        \/ copyLatencies(t)
        \/ SymlinkIfPossible(t, <<"/", "a">>, <<"/", "b">>)
        \/ \E err \in Errors : AddWriteError(t, <<"/", "a">>, err)
        \/ DelWriteError(t, <<"/", "a">>)
        \/ \E latency \in PositiveLatencies : AddLatency(t, <<"/", "a">>, latency)
        \/ DelLatency(t, <<"/", "a">>)

SpecClone == InitClone /\ [][NextClone]_vars

\* calls of the link scenario
MaxLinkCalls == 4

InitLink == Harness(MaxLinkCalls, TRUE) /\ \E src \in Providers : New(src)

\* one caller that registers rules on "/a" and on "/b" and links "/b" to
\* "/a", on a provider with or without symlinks; every call that returns
\* is recorded in log
NextLink ==
    \/ MutatorLock("t1")
    \/ MutatorRun("t1")
    \/ delayLock("t1")
    \/ delayRun("t1")
    \/ delayWake("t1")
    \/ checkErrorLock("t1")
    \/ checkErrorRun("t1")
    \/ SourceCall("t1")
    \/ copyWriteErrors("t1")
    \/ copyReadErrors("t1")
    \/ copyLatencies("t1")
    \/ SymlinkIfPossible("t1", <<"/", "a">>, <<"/", "b">>)
    \/ AddWriteError("t1", <<"/", "a">>, "e1")
    \/ AddReadError("t1", <<"/", "a">>, "e1")
    \/ AddLatency("t1", <<"/", "a">>, 1)
    \/ AddWriteError("t1", <<"/", "b">>, "e2")
    \/ AddReadError("t1", <<"/", "b">>, "e2")
    \/ AddLatency("t1", <<"/", "b">>, 2)

SpecLink == InitLink /\ [][NextLink]_vars

(* ------------------------------------------------------------------ *)
(* Properties                                                         *)
(* ------------------------------------------------------------------ *)

\* the call of thread t has returned
Returned(t) == th[t].pc = "idle" /\ th[t].op # None

\* the provider was called during the call whose frame is f
Delegated(f) == \E i \in 1..Len(f.trace) : f.trace[i][1] = "src"

\* the facade calls C1 lists, OpenFile with each of the five write flags
IsListedWriteCall(f) ==
    \/ f.op \in {"Create", "Mkdir", "Remove", "Chmod", "Chown", "Chtimes"}
    \/ f.op = "OpenFile" /\ f.arg \in {O_WRONLY, O_RDWR, O_APPEND, O_CREATE, O_TRUNC}

\* C1: a write-classified facade call (Create, OpenFile with a write flag,
\* Mkdir, Remove, Chmod, Chown, Chtimes) on a path that carries a write
\* error e registered with AddWriteError returns exactly e and no handle,
\* and the provider is not called.
C1_WriteErrorShortCircuits ==
    \A t \in Threads :
        LET f == th[t]
            p == Clean(f.raw)
        IN (/\ Returned(t)
            /\ IsListedWriteCall(f)
            /\ HasKey(writeErrors, p)
            /\ writeErrors[p].err \in Errors)
           => (/\ f.ret = writeErrors[p].err
               /\ f.val = Nil
               /\ ~Delegated(f))

\* C1 witness: Create on a path with a write error has returned it
C1_Witness ==
    \E t \in Threads :
        /\ Returned(t)
        /\ th[t].op = "Create"
        /\ HasKey(writeErrors, Clean(th[t].raw))
        /\ th[t].ret \in Errors
        /\ th[t].ret = writeErrors[Clean(th[t].raw)].err

\* the facade calls C2 lists as read-classified, OpenFile without a write flag
IsListedReadCall(f) ==
    \/ f.op \in {"Stat", "Open", "LstatIfPossible", "ReadlinkIfPossible"}
    \/ f.op = "OpenFile" /\ f.arg \in {O_RDONLY, O_EXCL}

\* a rule with a non-nil error is registered for p in the map m
HasRule(m, p) == HasKey(m, p) /\ m[p].err # Nil

\* the call went past the fault injector to the provider, or to the
\* report that the provider lacks the capability
PassedInjector(f) ==
    \/ Delegated(f) /\ f.ret \in {Nil, SrcErr}
    \/ f.op = "ReadlinkIfPossible" /\ f.ret = ErrNoReadlink(f.name)

\* C2: with a read error e on p and no write error on p, a write-classified
\* call on p is delegated and a read-classified call on p (Stat, Open,
\* OpenFile read-only, Lstat, Readlink) fails with e; with a write error on
\* p and no read error on p, no read-classified call on p returns an
\* injected error.
C2_ReadWriteIndependent ==
    \A t \in Threads :
        LET f == th[t]
            p == Clean(f.raw)
        IN Returned(t) =>
            /\ (HasRule(readErrors, p) /\ ~HasRule(writeErrors, p) /\ IsListedWriteCall(f))
                  => PassedInjector(f)
            /\ (HasRule(readErrors, p) /\ ~HasRule(writeErrors, p) /\ IsListedReadCall(f))
                  => (f.ret = readErrors[p].err /\ ~Delegated(f))
            /\ (HasRule(writeErrors, p) /\ ~HasRule(readErrors, p) /\ IsListedReadCall(f))
                  => PassedInjector(f)

\* C2 witness: a write call was delegated on a path that carries a read
\* error and no write error
C2_Witness ==
    \E t \in Threads :
        /\ Returned(t)
        /\ th[t].op = "Mkdir"
        /\ HasRule(readErrors, Clean(th[t].raw))
        /\ ~HasRule(writeErrors, Clean(th[t].raw))
        /\ Delegated(th[t])

\* ---- rules registered with a probability ----

\* the administrative calls that take a probability, on the paths R
RandomCall(t, R) ==
    \E raw \in R, err \in Errors, probability \in Probabilities :
        \/ AddRandomWriteError(t, raw, err, probability)
        \/ AddRandomReadError(t, raw, err, probability)

\* "/a" and "/b": paths that are their own normal form
RandomPaths == { <<"/", "a">>, <<"/", "b">> }

\* one caller of the revision that takes probabilities. That revision
\* normalizes no path, so the caller uses paths that normalizePath leaves
\* as they are, and makes the calls that the revision carries out as the
\* newest one does: it registers and deletes rules, queries the write
\* error and calls Chtimes, Chmod, Chown, Stat, Lstat, Readlink, Remove and
\* Mkdir
NextRandom ==
    \/ MutatorLock("t1")
    \/ MutatorRun("t1")
    \/ GetRun("t1")
    \/ delayLock("t1")
    \/ delayRun("t1")
    \/ delayWake("t1")
    \/ checkErrorLock("t1")
    \/ checkErrorRun("t1")
    \/ SourceCall("t1")
    \/ RandomCall("t1", RandomPaths)
    \/ \E raw \in RandomPaths :
          \/ DelWriteError("t1", raw)
          \/ DelReadError("t1", raw)
          \/ \E latency \in PositiveLatencies : AddLatency("t1", raw, latency)
          \/ GetWriteError("t1", raw)
          \/ Chtimes("t1", raw)
          \/ Chmod("t1", raw)
          \/ Chown("t1", raw)
          \/ Stat("t1", raw)
          \/ LstatIfPossible("t1", raw)
          \/ ReadlinkIfPossible("t1", raw)
          \/ Remove("t1", raw)
          \/ Mkdir("t1", raw)

SpecRandom == Init /\ [][NextRandom]_vars

\* the rule map a listed call consults, or the empty map for other calls
RuleMapOf(f) ==
    IF IsListedWriteCall(f) THEN writeErrors
    ELSE IF IsListedReadCall(f) THEN readErrors
    ELSE EmptyMap

\* C3: a rule registered with probability 0 never makes a call on its path
\* return the injected error, and a rule registered with probability 1
\* makes every matching call return it.
C3_ProbabilityHonoured ==
    \A t \in Threads :
        LET f == th[t]
            p == Clean(f.raw)
            m == RuleMapOf(f)
        IN (Returned(t) /\ HasRule(m, p)) =>
            /\ m[p].probability = 0 => f.ret # m[p].err
            /\ m[p].probability = 1 => f.ret = m[p].err

\* ---- identity of the injected error ----

FacadeSingleOps ==
    {"Chtimes", "Chmod", "Chown", "Stat", "LstatIfPossible", "SymlinkIfPossible",
     "ReadlinkIfPossible", "Rename", "Remove", "Mkdir", "OpenFile", "Open", "Create"}

\* the error currently registered for the path and direction of the
\* single-path facade call f
RegisteredFor(f) ==
    ErrAt(IF IsListedReadCall(f) THEN readErrors ELSE writeErrors, Clean(f.raw)).err

\* the returned call f, if it returned an injected error, returned the
\* value held for its path (handle) and direction
InjectedIdentity(f) ==
    /\ (f.op \in FacadeSingleOps /\ f.ret \in Errors) => f.ret = RegisteredFor(f)
    /\ (f.op \in {"RemoveAll", "MkdirAll"} /\ f.ret \in Errors) =>
          \E q \in DOMAIN writeErrors :
              PathMatches(q, Clean(f.raw)) /\ f.ret = writeErrors[q].err
    /\ (f.op = "GetWriteError" /\ f.ret = Nil) =>
          (f.val \in Errors /\ f.val = ErrAt(writeErrors, Clean(f.raw)).err)
    /\ (f.op = "GetReadError" /\ f.ret = Nil) =>
          (f.val \in Errors /\ f.val = ErrAt(readErrors, Clean(f.raw)).err)
    /\ (f.op \in FileWriteOps /\ f.ret \in Errors) => f.ret = files[f.arg].writeError
    /\ (f.op \in FileReadOps /\ f.ret \in Errors) => f.ret = files[f.arg].readError
    /\ f.ret \in Errors => ~Delegated(f)

\* the returned registration f stored exactly the error it was given,
\* over whatever was there
StoredAsGiven(f) ==
    /\ f.op = "AddWriteError" =>
          (HasKey(writeErrors, Clean(f.raw)) /\ writeErrors[Clean(f.raw)].err = f.arg.err)
    /\ f.op = "AddReadError" =>
          (HasKey(readErrors, Clean(f.raw)) /\ readErrors[Clean(f.raw)].err = f.arg.err)
    /\ f.op = "FileAddWriteError" => files[f.arg].writeError = f.dir
    /\ f.op = "FileAddReadError" => files[f.arg].readError = f.dir

ReturnedIdentity ==
    \A t \in Threads : Returned(t) => (InjectedIdentity(th[t]) /\ StoredAsGiven(th[t]))

\* an error held for a path changes only in a registration, a removal or
\* a clone onto that path; an error held by a handle only in the handle's
\* own Add/Del, and a new handle starts with the errors held for its name
OnlyRegistrationChanges ==
    /\ \A p \in DOMAIN writeErrors \cup DOMAIN writeErrors' :
          ErrAt(writeErrors, p).err # ErrAt(writeErrors', p).err =>
            \E t \in Threads :
              \/ th[t].op \in {"AddWriteError", "DelWriteError"} /\ th[t].name = p
              \/ th[t].op = "SymlinkIfPossible" /\ th[t].name2 = p
    /\ \A p \in DOMAIN readErrors \cup DOMAIN readErrors' :
          ErrAt(readErrors, p).err # ErrAt(readErrors', p).err =>
            \E t \in Threads :
              \/ th[t].op \in {"AddReadError", "DelReadError"} /\ th[t].name = p
              \/ th[t].op = "SymlinkIfPossible" /\ th[t].name2 = p
    /\ \A h \in 1..Len(files') :
          IF h \in Handles
          THEN /\ files'[h].writeError # files[h].writeError =>
                    \E t \in Threads :
                        th[t].op \in {"FileAddWriteError", "FileDelWriteError"} /\ th[t].arg = h
               /\ files'[h].readError # files[h].readError =>
                    \E t \in Threads :
                        th[t].op \in {"FileAddReadError", "FileDelReadError"} /\ th[t].arg = h
          ELSE \E t \in Threads :
                    /\ th[t].op \in OpenOps
                    /\ files'[h].writeError = ErrAt(writeErrors, th[t].name).err
                    /\ files'[h].readError = ErrAt(readErrors, th[t].name).err

\* C4: an injected error returned by a facade call, by a handle call or by
\* GetWriteError/GetReadError is the very value most recently registered
\* for that path (or handle) and direction: a registration stores its
\* argument over the prior rule, nothing but a registration, a removal or
\* a clone changes the stored value, and the stored value is what comes
\* back, never another error.
C4_InjectedErrorIdentity == [][OnlyRegistrationChanges /\ ReturnedIdentity']_vars

\* C4 witness: a handle write returned the error registered on the handle
\* while the registry holds a different write rule, or none, for its path
C4_Witness ==
    \E t \in Threads :
        /\ Returned(t)
        /\ th[t].op = "Write"
        /\ th[t].ret \in Errors
        /\ th[t].ret = files[th[t].arg].writeError
        /\ ErrAt(writeErrors, th[t].name).err # th[t].ret

\* ---- clearing a write error ----

\* the recorded call f is the call op on the path p
IsCall(f, op, p) == f.op = op /\ Clean(f.raw) = p

\* no write error is registered on p by the recorded calls i+1 .. j-1
NoAddBetween(i, j, p) ==
    \A k \in (i + 1)..(j - 1) : ~IsCall(log[k], "AddWriteError", p)

\* the recorded Create went to the provider and returned its result: a new
\* handle, or the provider's error
CreateDelegated(f) ==
    /\ Delegated(f)
    /\ \/ f.ret = Nil /\ f.val \in 1..MaxFiles
       \/ f.ret = SrcErr /\ f.val = Nil

\* C5: once DelWriteError(p) has returned, and until a write error is
\* registered on p again, GetWriteError(p) reports not-found and a
\* write-classified call on p (Create, Remove) is delegated and returns the provider's
\* result; in Create(p), AddWriteError(p, e), Create(p), DelWriteError(p),
\* Create(p) the second Create returns e and no handle and the third is
\* delegated again.
C5_DelWriteErrorClears ==
    \A p \in {Clean(raw) : raw \in ScenarioPaths} :
        /\ \A i \in 1..Len(log) : \A j \in (i + 1)..Len(log) :
              (IsCall(log[i], "DelWriteError", p) /\ NoAddBetween(i, j, p)) =>
                /\ IsCall(log[j], "GetWriteError", p) =>
                      (log[j].ret = ErrNotRegistered(p) /\ log[j].val = Nil)
                /\ IsCall(log[j], "Create", p) => CreateDelegated(log[j])
                /\ IsCall(log[j], "Remove", p) => PassedInjector(log[j])
        /\ \A i \in 1..(Len(log) - 2) :
              (/\ IsCall(log[i], "AddWriteError", p) /\ log[i].arg.err \in Errors
               /\ IsCall(log[i + 1], "Create", p)
               /\ IsCall(log[i + 2], "DelWriteError", p)) =>
                /\ log[i + 1].ret = log[i].arg.err
                /\ log[i + 1].val = Nil
                /\ ~Delegated(log[i + 1])
                /\ (Len(log) > i + 2 /\ IsCall(log[i + 3], "Create", p)) =>
                      CreateDelegated(log[i + 3])

\* C5 witness: the five calls of the scenario have returned, the first and
\* the last Create with a handle, the one in between with the error
C5_Witness ==
    /\ Len(log) = 5
    /\ log[1].op = "Create" /\ log[1].ret = Nil /\ log[1].val = 1
    /\ log[2].op = "AddWriteError" /\ log[2].arg.err = "e1"
    /\ log[3].op = "Create" /\ log[3].ret = "e1" /\ log[3].val = Nil
    /\ log[4].op = "DelWriteError"
    /\ log[5].op = "Create" /\ log[5].ret = Nil /\ log[5].val = 2

\* ---- the registry as three maps ----

Kinds == {"WriteError", "ReadError", "Latency"}

\* the recorded call f registers a rule of the kind on p: an AddLatency
\* that is refused registers nothing
Registers(f, kind, p) ==
    IsCall(f, "Add" \o kind, p) /\ (kind = "Latency" => f.arg > 0)

Clears(f, kind, p) == IsCall(f, "Del" \o kind, p)

\* the last recorded call before the j-th that registers or clears the
\* kind on p, 0 if there is none
LastChange(j, kind, p) ==
    LET S == {i \in 1..(j - 1) : Registers(log[i], kind, p) \/ Clears(log[i], kind, p)}
    IN IF S = {} THEN 0 ELSE CHOOSE i \in S : \A k \in S : k <= i

\* what the j-th recorded call, a query of the kind on p, must return
\* after the calls recorded before it: <<value, found>>
Expected(j, kind, p) ==
    LET i == LastChange(j, kind, p)
        zero == IF kind = "Latency" THEN 0 ELSE Nil
    IN IF i = 0 THEN <<zero, FALSE>>
       ELSE IF Clears(log[i], kind, p) THEN <<zero, FALSE>>
       ELSE IF kind = "Latency" THEN <<log[i].arg, TRUE>>
       ELSE <<log[i].arg.err, log[i].arg.err # Nil>>

\* C6: after any sequence of Add*/Del* calls each query reports found with
\* v exactly when the last registration of its kind on its path stored v
\* (non-nil, positive) and no Del of that kind on that path followed;
\* otherwise it reports not-found with a nil/zero value, whatever was
\* registered or cleared on other paths and kinds.
C6_ThreeIndependentMaps ==
    \A j \in 1..Len(log) : \A kind \in Kinds :
        log[j].op = "Get" \o kind =>
            LET e == Expected(j, kind, Clean(log[j].raw)) IN
            /\ (log[j].ret = Nil) = e[2]
            /\ log[j].val = e[1]

\* C6 witness: a latency was registered, an error registered and cleared
\* on the same path, and the query of the latency still found it
C6_Witness ==
    /\ Len(log) = 3
    /\ log[1].op = "AddLatency" /\ log[1].arg = 2
    /\ log[2].op = "DelWriteError" /\ log[2].name = log[1].name
    /\ log[3].op = "GetLatency" /\ log[3].name = log[1].name
    /\ log[3].ret = Nil /\ log[3].val = 2

\* C7: AddLatency(p, d) with d <= 0 returns the error and the query that
\* follows it, of any kind on any path, answers as if the call had not
\* been made, so a latency registered on p before is still returned; with
\* d > 0 it returns nil and GetLatency(p) then returns d.
C7_AddLatencyRefusesNonPositive ==
    \A j \in 1..Len(log) :
        log[j].op = "AddLatency" =>
            LET d == log[j].arg
                p == Clean(log[j].raw)
            IN
            /\ log[j].ret = IF d <= 0 THEN ErrLatency ELSE Nil
            /\ j < Len(log) =>
                  \A kind \in Kinds :
                      log[j + 1].op = "Get" \o kind =>
                          LET q == Clean(log[j + 1].raw)
                              e == IF d > 0 /\ kind = "Latency" /\ q = p
                                   THEN <<d, TRUE>>
                                   ELSE Expected(j, kind, q)
                          IN /\ (log[j + 1].ret = Nil) = e[2]
                             /\ log[j + 1].val = e[1]

\* C7 witness: a latency of 2 was registered, AddLatency with a duration
\* that is not positive was refused on the same path, and GetLatency still
\* returned 2
C7_Witness ==
    /\ Len(log) = 3
    /\ log[1].op = "AddLatency" /\ log[1].arg = 2 /\ log[1].ret = Nil
    /\ log[2].op = "AddLatency" /\ log[2].arg <= 0 /\ log[2].ret = ErrLatency
    /\ log[2].name = log[1].name
    /\ log[3].op = "GetLatency" /\ log[3].name = log[1].name
    /\ log[3].ret = Nil /\ log[3].val = 2

\* C8: in every reachable state every entry of the latency map has a
\* strictly positive duration, so GetLatency never reports found with a
\* duration that is not positive.
C8_LatenciesPositive ==
    \A p \in DOMAIN latencies : latencies[p] > 0

\* ---- the order of sleep, error check and provider call ----

\* C9: a single-path facade call on a path p that has a latency (a
\* positive duration, as AddLatency registers it) sleeps for
\* that latency first, consults the error rule of its direction second and
\* calls the provider, if at all, third; a call that has returned has
\* slept, whether it returned an injected error or was delegated.
C9_SleepBeforeCheck ==
    \A t \in Threads :
        LET f == th[t]
            p == Clean(f.raw)
            n == Len(f.trace)
        IN (f.op \in FacadeSingleOps /\ HasKey(latencies, p) /\ latencies[p] > 0) =>
            /\ n >= 1 => (/\ f.trace[1][1] = "slept"
                          /\ f.trace[1][2] = p
                          /\ f.trace[1][3] = latencies[p])
            /\ n >= 2 => (/\ f.trace[2][1] = "check"
                          /\ f.trace[2][2] = (IF IsListedReadCall(f) THEN "read" ELSE "write")
                          /\ f.trace[2][3] = p)
            /\ n >= 3 => (f.trace[3][1] = "src" /\ n = 3)
            /\ Returned(t) => n >= 2
            /\ (Returned(t) /\ f.ret \in Errors) => n = 2

\* C9 witness: a Create on a path with a positive latency and a write
\* error has returned the error after sleeping
C9_Witness ==
    \E t \in Threads :
        LET f == th[t] IN
        /\ Returned(t)
        /\ f.op = "Create"
        /\ HasKey(latencies, Clean(f.raw))
        /\ latencies[Clean(f.raw)] > 0
        /\ f.ret \in Errors
        /\ Len(f.trace) = 2
        /\ f.trace[1][1] = "slept"
        /\ f.trace[1][3] = latencies[Clean(f.raw)]

\* ---- the registry lock during the sleep ----

\* the thread u has called Lock or RLock on the registry mutex and waits
\* for it to return
WaitsForRegistryLock(u) == th[u].pc \in {"locking", "delaying", "checking", "get"}

\* the lock operation the thread u waits for can return now
CanTakeRegistryLock(u) ==
    IF th[u].pc = "get" THEN CanRLock(mu, u) ELSE CanLock(mu, u)

\* C10: a call that is sleeping for its latency does not hold the registry
\* lock, so a concurrent facade call, mutation or query on another path
\* that waits for the lock can take it before the sleep ends.
C10_SleepWithoutLock ==
    \A t \in Threads :
        th[t].pc = "sleep" =>
            /\ ~HoldsLock(t)
            /\ \A u \in Threads \ {t} :
                  (WaitsForRegistryLock(u) /\ th[u].cur # th[t].cur /\ th[u].name # th[t].cur)
                      => CanTakeRegistryLock(u)

\* ---- rules cloned onto a link ----

\* what a query answers for a path, without the path its error message
\* names: <<value, found>>
AnswerError(m, p) == <<LookupError(m, p)[1], LookupError(m, p)[2] = Nil>>
AnswerLatency(m, p) == <<LookupLatency(m, p)[1], LookupLatency(m, p)[2] = Nil>>

\* C11: once SymlinkIfPossible(a, b) has succeeded, GetReadError(b),
\* GetWriteError(b) and GetLatency(b) answer what the same query answers
\* on a: every rule of a is on b with the same value, and b has no rule
\* that a lacks.
C11_SymlinkClonesRules ==
    \A t \in Threads :
        LET f == th[t]
            a == Clean(f.raw)
            b == f.name2
        IN (Returned(t) /\ f.op = "SymlinkIfPossible" /\ f.ret = Nil) =>
            /\ AnswerError(readErrors, b) = AnswerError(readErrors, a)
            /\ AnswerError(writeErrors, b) = AnswerError(writeErrors, a)
            /\ AnswerLatency(latencies, b) = AnswerLatency(latencies, a)

\* ---- RemoveAll and MkdirAll ----

\* the cleaned path p is root or lies under it: every rooted path lies
\* under "/", every relative path under "."
IsAtOrUnder(p, root) ==
    \/ p = root
    \/ root = FilePathSeparator /\ Head(p) = "/"
    \/ root = Dot /\ Head(p) # "/"
    \/ HasPrefix(p, root \o FilePathSeparator)

\* the paths at or under root that carry a write error
FailingUnder(root) ==
    {p \in DOMAIN writeErrors : HasRule(writeErrors, p) /\ IsAtOrUnder(p, root)}

\* C12: when a write error is registered on root or on a descendant of
\* root, the filesystem root and the current directory included,
\* RemoveAll(root) and MkdirAll(root) return one of those errors and do
\* not call the provider.
C12_RecursiveCallsFail ==
    \A t \in Threads :
        LET f == th[t]
            S == FailingUnder(Clean(f.raw))
        IN (Returned(t) /\ f.op \in {"RemoveAll", "MkdirAll"} /\ S # {}) =>
            /\ f.ret \in {writeErrors[p].err : p \in S}
            /\ ~Delegated(f)

\* the provider calls made during the call whose frame is f
SourceCalls(f) == {i \in 1..Len(f.trace) : f.trace[i][1] = "src"}

\* C13: when GetWriteError reports not-found for root and for every
\* descendant of root, RemoveAll(root) and MkdirAll(root) call the
\* provider exactly once and return its result, whatever is registered on
\* paths outside root.
C13_RecursiveCallsPassThrough ==
    \A t \in Threads :
        LET f == th[t] IN
        (/\ Returned(t)
         /\ f.op \in {"RemoveAll", "MkdirAll"}
         /\ FailingUnder(Clean(f.raw)) = {}) =>
            /\ Cardinality(SourceCalls(f)) = 1
            /\ f.trace[Len(f.trace)][2] = f.op
            /\ f.ret \in {Nil, SrcErr}

\* ---- Rename ----

\* the paths the call whose frame is f slept for
SleptFor(f) == {f.trace[i][2] : i \in {j \in 1..Len(f.trace) : f.trace[j][1] = "slept"}}

\* C14: Rename(old, new) consults the write rule and the latency of old
\* alone: with a write error on old it returns that error without calling
\* the provider, without one it is delegated whatever is registered on
\* new, and it sleeps for the latency of old and for no other.
C14_RenameChecksOld ==
    \A t \in Threads :
        LET f == th[t]
            old == Clean(f.raw)
        IN (Returned(t) /\ f.op = "Rename") =>
            /\ HasRule(writeErrors, old) =>
                  (f.ret = writeErrors[old].err /\ ~Delegated(f))
            /\ ~HasRule(writeErrors, old) =>
                  (Cardinality(SourceCalls(f)) = 1 /\ f.ret \in {Nil, SrcErr})
            /\ SleptFor(f) = IF HasKey(latencies, old) THEN {old} ELSE {}

\* C14 witness: a Rename was delegated although its new path, a different
\* path, carries a write error
C14_Witness ==
    \E t \in Threads :
        LET f == th[t] IN
        /\ Returned(t)
        /\ f.op = "Rename"
        /\ f.name2 # Clean(f.raw)
        /\ HasRule(writeErrors, f.name2)
        /\ ~HasRule(writeErrors, Clean(f.raw))
        /\ Delegated(f)

\* ---- the direction of OpenFile ----

\* the flag word contains the bit
HasFlag(flag, bit) == (flag \div bit) % 2 = 1

\* the direction C15 gives to a flag word: O_RDONLY is the absence of
\* O_WRONLY and O_RDWR
FlagDirection(flag) ==
    IF \E bit \in {O_WRONLY, O_RDWR, O_APPEND, O_CREATE, O_TRUNC} : HasFlag(flag, bit)
    THEN "write" ELSE "read"

\* the error checks made during the call whose frame is f: <<direction, path>>
Checks(f) ==
    {<<f.trace[i][2], f.trace[i][3]>> :
        i \in {j \in 1..Len(f.trace) : f.trace[j][1] = "check"}}

\* C15: OpenFile(p, flags) is a write when flags contain O_WRONLY, O_RDWR,
\* O_APPEND, O_CREATE or O_TRUNC and a read otherwise; it consults the
\* rule of that direction on p and no other, fails with it when there is
\* one and is delegated when there is none, whatever the rule of the
\* other direction.
C15_OpenFileDirection ==
    \A t \in Threads :
        LET f == th[t]
            p == Clean(f.raw)
            dir == FlagDirection(f.arg)
            m == IF dir = "write" THEN writeErrors ELSE readErrors
        IN (Returned(t) /\ f.op = "OpenFile") =>
            /\ Checks(f) = {<<dir, p>>}
            /\ HasRule(m, p) => (f.ret = m[p].err /\ f.val = Nil /\ ~Delegated(f))
            /\ ~HasRule(m, p) => (Delegated(f) /\ f.ret \in {Nil, SrcErr})

\* C15 witness: OpenFile with O_RDWR|O_CREATE|O_TRUNC was delegated on a
\* path that carries a read error
C15_Witness ==
    \E t \in Threads :
        LET f == th[t] IN
        /\ Returned(t)
        /\ f.op = "OpenFile"
        /\ f.arg = O_RDWR + O_CREATE + O_TRUNC
        /\ HasRule(readErrors, Clean(f.raw))
        /\ Delegated(f)
        /\ f.ret = Nil

\* ---- one path under several spellings ----

\* the recorded call f, a Stat or a Mkdir on p, behaved as the rules
\* expected from the calls recorded before it dictate: e for its
\* direction, l for the latency
InjectedAsExpected(f, p, e, l) ==
    /\ e[2] => (f.ret = e[1] /\ ~Delegated(f))
    /\ ~e[2] => (Delegated(f) /\ f.ret \in {Nil, SrcErr})
    /\ SleptFor(f) = IF l[2] THEN {p} ELSE {}
    /\ \A i \in 1..Len(f.trace) : f.trace[i][1] = "slept" => f.trace[i][3] = l[1]

\* C16: a rule registered, cleared or queried under one spelling of a
\* path is the rule seen under every spelling with the same cleaned form:
\* each query answers, and each Stat and Mkdir is failed and delayed, as
\* the last Add or Del of that kind under any spelling of its path
\* dictates.
C16_SpellingsShareRules ==
    \A j \in 1..Len(log) :
        LET f == log[j]
            p == Clean(f.raw)
        IN
        /\ \A kind \in Kinds :
              f.op = "Get" \o kind =>
                  ((f.ret = Nil) = Expected(j, kind, p)[2] /\ f.val = Expected(j, kind, p)[1])
        /\ f.op = "Stat" =>
              InjectedAsExpected(f, p, Expected(j, "ReadError", p), Expected(j, "Latency", p))
        /\ f.op = "Mkdir" =>
              InjectedAsExpected(f, p, Expected(j, "WriteError", p), Expected(j, "Latency", p))

\* C16 witness: a read error registered as "/./a/" was returned by
\* GetReadError("/a") and failed Stat("/a")
C16_Witness ==
    /\ Len(log) = 3
    /\ log[1].op = "AddReadError" /\ log[1].raw = <<"/", ".", "/", "a", "/">>
    /\ log[2].op = "GetReadError" /\ log[2].raw = <<"/", "a">>
    /\ log[2].ret = Nil /\ log[2].val = log[1].arg.err
    /\ log[3].op = "Stat" /\ log[3].raw = <<"/", "a">>
    /\ log[3].ret = log[1].arg.err

\* ---- optional capabilities ----

CapabilityOps == {"SymlinkIfPossible", "ReadlinkIfPossible", "LstatIfPossible"}

\* the provider lacks the optional interface the call f needs
LacksCapability(f) ==
    \/ f.op = "SymlinkIfPossible" /\ ~source.linker
    \/ f.op = "ReadlinkIfPossible" /\ ~source.linkReader
    \/ f.op = "LstatIfPossible" /\ ~source.lstater

\* the call f returned a not-supported error naming its operation and its
\* path(s); for lstat, an error that is neither a registered one nor the
\* provider's
ReturnedNotSupported(f) ==
    CASE f.op = "SymlinkIfPossible" -> f.ret = ErrNoSymlink(Clean(f.raw), f.name2)
      [] f.op = "ReadlinkIfPossible" -> f.ret = ErrNoReadlink(Clean(f.raw))
      [] OTHER -> f.ret \notin {Nil, SrcErr} \cup Errors

\* thread t is in a step that ends a call whose error check has passed or
\* passes in this step
ReturnsPastInjector(t) ==
    /\ th[t].pc \in {"checking", "src"}
    /\ th[t].pc = "checking" => checkDirError(th[t].dir, th[t].cur) = Nil
    /\ th'[t].pc = "idle"

\* C17: a SymlinkIfPossible, ReadlinkIfPossible or LstatIfPossible call on
\* a provider without the capability, on a path no rule fails, returns a
\* not-supported error naming the operation and the path(s), without
\* calling the provider and without changing any of the three maps.
C17_NotSupported ==
    [][\A t \in Threads :
        (/\ th[t].op \in CapabilityOps
         /\ LacksCapability(th[t])
         /\ ReturnsPastInjector(t)) =>
            /\ ReturnedNotSupported(th'[t])
            /\ ~Delegated(th'[t])
            /\ UNCHANGED Registry]_vars

\* C18: LstatIfPossible(p) on a provider without the Lstat capability:
\* with no read error on p the provider's Stat(p) is called, once, and
\* its result is returned with the flag false (success when Stat
\* succeeds); with a read error on p that error is returned and the
\* provider is not called.
C18_LstatFallsBackToStat ==
    \A t \in Threads :
        LET f == th[t]
            p == Clean(f.raw)
        IN (Returned(t) /\ f.op = "LstatIfPossible" /\ ~source.lstater) =>
            /\ f.val[2] = FALSE
            /\ HasRule(readErrors, p) =>
                  (f.ret = readErrors[p].err /\ f.val[1] = Nil /\ ~Delegated(f))
            /\ ~HasRule(readErrors, p) =>
                  /\ Cardinality(SourceCalls(f)) = 1
                  /\ f.trace[Len(f.trace)] = <<"src", "Stat", p, <<>>>>
                  /\ \/ f.ret = Nil /\ f.val[1] = "srcVal"
                     \/ f.ret = SrcErr /\ f.val[1] = Nil

\* C18 witness: an lstat on a path with a write error and no read error
\* succeeded through the provider's Stat, flag false
C18_Witness ==
    \E t \in Threads :
        LET f == th[t] IN
        /\ Returned(t)
        /\ f.op = "LstatIfPossible"
        /\ ~source.lstater
        /\ ~HasRule(readErrors, Clean(f.raw))
        /\ HasRule(writeErrors, Clean(f.raw))
        /\ f.ret = Nil
        /\ f.val = <<"srcVal", FALSE>>
        /\ f.trace[Len(f.trace)][2] = "Stat"

\* ---- handles ----

\* the handle h holds what the three maps answer for the cleaned path p
HoldsRulesOf(h, p) ==
    /\ files[h].readError = AnswerError(readErrors, p)[1]
    /\ files[h].writeError = AnswerError(writeErrors, p)[1]
    /\ files[h].latency = AnswerLatency(latencies, p)[1]

\* C19: every successful Create, Open and OpenFile returns a BadFile
\* around the provider's file, and its read error, write error and
\* latency are what the registry holds for the path of the call.
C19_HandleSnapshotsRules ==
    \A t \in Threads :
        LET f == th[t] IN
        (Returned(t) /\ f.op \in OpenOps /\ f.ret = Nil) =>
            /\ f.val \in Handles
            /\ HoldsRulesOf(f.val, Clean(f.raw))

\* ---- handles and the registry after the handle is created ----

RegistryMutatorOps ==
    {"AddWriteError", "DelWriteError", "AddReadError", "DelReadError",
     "AddLatency", "DelLatency", "SymlinkIfPossible"}

FileMutatorOps ==
    {"FileAddWriteError", "FileDelWriteError", "FileAddReadError",
     "FileDelReadError", "FileAddLatency"}

\* the fault state of a handle
FaultState(b) == <<b.readError, b.writeError, b.latency>>

\* the durations the handle call f slept for
FileSleptFor(f) == {f.trace[i][3] : i \in {j \in 1..Len(f.trace) : f.trace[j][1] = "slept"}}

\* the handle call f reached the wrapped file
FileDelegated(f) == \E i \in 1..Len(f.trace) : f.trace[i][1] = "fsrc"

\* the fault state of an open handle changes only in a mutator of that
\* handle, and the three maps only in a registry call
FaultStateFrame ==
    /\ \A h \in Handles :
          FaultState(files'[h]) # FaultState(files[h]) =>
              \E t \in Threads : th[t].op \in FileMutatorOps /\ th[t].arg = h
    /\ Registry' # Registry =>
          \E t \in Threads : th[t].op \in RegistryMutatorOps /\ th[t].pc # "idle"
    /\ \A t \in Threads :
          (th[t].pc # "idle" /\ th[t].op \in RegistryMutatorOps) =>
              \A h \in Handles : FaultState(files'[h]) = FaultState(files[h])

\* the error the handle b holds for the direction of op: the write error
\* for Close, Sync, Truncate, Write, WriteAt and WriteString
OwnError(b, op) ==
    IF op \in {"Close", "Sync", "Truncate", "Write", "WriteAt", "WriteString"}
    THEN b.writeError
    ELSE b.readError

\* what a handle operation returned follows from the handle's own fault
\* state, whatever the registry and the other handles hold
HandleAnswersFromOwnState ==
    \A t \in Threads :
        LET f == th[t]
            b == files[f.arg]
        IN (Returned(t) /\ f.op \in FileOps \ {"FileName"}) =>
            /\ FileSleptFor(f) = IF b.latency > 0 THEN {b.latency} ELSE {}
            /\ IF OwnError(b, f.op) # Nil
               THEN f.ret = OwnError(b, f.op) /\ ~FileDelegated(f)
               ELSE f.ret \in {Nil, SrcErr} /\ FileDelegated(f)

\* C20: after a handle is created its fault state and the registry are
\* independent: no registry call changes the fault state of an open
\* handle or what its operations return, and no handle mutator changes
\* the registry or the fault state of another handle.
C20_HandleIndependentOfRegistry ==
    [][FaultStateFrame /\ HandleAnswersFromOwnState']_vars

\* C20 witness: a Read on a handle without a read error went to the
\* wrapped file although the registry has a read error for the handle's
\* path and another handle on the same path holds that error
C20_Witness ==
    \E t \in Threads :
        LET f == th[t] IN
        /\ Returned(t)
        /\ f.op = "Read"
        /\ files[f.arg].readError = Nil
        /\ HasRule(readErrors, files[f.arg].sourceFile)
        /\ FileDelegated(f)
        /\ \E h \in Handles \ {f.arg} :
              /\ files[h].sourceFile = files[f.arg].sourceFile
              /\ files[h].readError = readErrors[files[f.arg].sourceFile].err

\* ---- an injected error on a handle ----

\* the handle operations that have an error check
FileCheckedOps ==
    {"Read", "ReadAt", "Write", "WriteAt", "WriteString", "Seek",
     "Close", "Sync", "Truncate", "FileStat", "Readdir", "Readdirnames"}

\* thread t is in a call of a checked operation on a handle whose error
\* of that direction is set
FailingHandleCall(t) ==
    /\ th[t].pc # "idle"
    /\ th[t].op \in FileCheckedOps
    /\ OwnError(files[th[t].arg], th[t].op) # Nil

\* C21: a handle operation whose direction's error is set on the handle
\* returns exactly that error, with -1 for Read, ReadAt, Write, WriteAt,
\* WriteString and Seek and a nil result for Close, Sync, Truncate, Stat,
\* Readdir and Readdirnames; the wrapped file is not called and stays
\* open or closed as it was.
C21_HandleErrorShortCircuits ==
    [][\A t \in Threads :
        FailingHandleCall(t) =>
            LET f == th'[t]
                h == th[t].arg
            IN
            /\ files'[h].closed = files[h].closed
            /\ files'[h].sourceFile = files[h].sourceFile
            /\ ~FileDelegated(f)
            /\ f.pc = "idle" =>
                  /\ f.ret = OwnError(files[h], f.op)
                  /\ IF f.op \in {"Read", "ReadAt", "Write", "WriteAt", "WriteString", "Seek"}
                     THEN f.val = -1
                     ELSE f.val = Nil]_vars

\* C21 witness: a Seek on an open handle with a read error returned -1
\* and the error, and the wrapped file is still open
C21_Witness ==
    \E t \in Threads :
        LET f == th[t] IN
        /\ Returned(t)
        /\ f.op = "Seek"
        /\ files[f.arg].readError \in Errors
        /\ f.ret = files[f.arg].readError
        /\ f.val = -1
        /\ ~FileDelegated(f)
        /\ ~files[f.arg].closed

\* ---- the direction of a handle operation ----

\* the classification C22 gives
ReadGoverned == {"Read", "ReadAt", "Readdir", "Readdirnames", "FileStat", "Seek", "FileName"}
WriteGoverned == {"Write", "WriteAt", "WriteString", "Truncate", "Sync", "Close"}

\* the returned handle call f failed with the error e, or went to the
\* wrapped file when e is nil
GovernedBy(f, e) ==
    IF e # Nil
    THEN f.ret = e /\ ~FileDelegated(f)
    ELSE f.ret \in {Nil, SrcErr} /\ FileDelegated(f)

\* C22: on a handle the read error, and only it, decides Read, ReadAt,
\* Readdir, Readdirnames, Stat, Seek and Name, and the write error, and
\* only it, decides Write, WriteAt, WriteString, Truncate, Sync and Close:
\* each fails with its direction's error when that is set and is delegated
\* otherwise, whatever the other direction holds.
C22_HandleDirections ==
    \A t \in Threads :
        LET f == th[t]
            b == files[f.arg]
        IN
        /\ (Returned(t) /\ f.op \in ReadGoverned) => GovernedBy(f, b.readError)
        /\ (Returned(t) /\ f.op \in WriteGoverned) => GovernedBy(f, b.writeError)

\* ---- setting and clearing the errors of a handle ----

\* the last recorded call before the j-th that sets or clears the error
\* of the direction ("Write" or "Read") on the handle h, 0 if there is none
LastHandleChange(j, h, direction) ==
    LET S == {i \in 1..(j - 1) :
                /\ log[i].op \in {"FileAdd" \o direction \o "Error",
                                  "FileDel" \o direction \o "Error"}
                /\ log[i].arg = h}
    IN IF S = {} THEN 0 ELSE CHOOSE i \in S : \A k \in S : k <= i

\* the error the handle h holds for the direction when the j-th recorded
\* call starts: the argument of the last Add, nil after a Del or when the
\* handle was opened on a path without rules and never changed
ErrorSetBefore(j, h, direction) ==
    LET i == LastHandleChange(j, h, direction) IN
    IF i = 0 THEN Nil
    ELSE IF log[i].op = "FileAdd" \o direction \o "Error" THEN log[i].dir
    ELSE Nil

\* a recorded call before the j-th reached the Close of the wrapped file
\* of h, which returned nil
ClosedBefore(j, h) ==
    \E i \in 1..(j - 1) :
        log[i].op = "Close" /\ log[i].arg = h /\ FileDelegated(log[i]) /\ log[i].ret = Nil

\* C23: a handle's AddWriteError(e) makes the next write-classified call
\* on it (Write, Close) return e without reaching the wrapped file, and a
\* following DelWriteError makes the next one go to the wrapped file
\* again and return its answer; a Close that failed with the injected
\* error left the wrapped file as it was, which is closed only by a Close
\* that reached it; the same for AddReadError/DelReadError and Read.
C23_HandleMutatorsImmediate ==
    /\ \A j \in 1..Len(log) :
          LET f == log[j] IN
          /\ f.op \in {"Write", "Close"} =>
                GovernedBy(f, ErrorSetBefore(j, f.arg, "Write"))
          /\ f.op = "Read" =>
                GovernedBy(f, ErrorSetBefore(j, f.arg, "Read"))
    /\ \A h \in Handles : files[h].closed <=> ClosedBefore(Len(log) + 1, h)

\* C23 witness: on one handle, still open, a Close failed with the error
\* just added, the error was removed, and the next Close reached the
\* wrapped file, which closed
C23_Witness ==
    \E j \in 1..Len(log) :
        /\ j >= 4
        /\ log[j - 3].op = "FileAddWriteError"
        /\ log[j - 3].dir \in Errors
        /\ log[j - 2].op = "Close"
        /\ log[j - 2].ret = log[j - 3].dir
        /\ ~FileDelegated(log[j - 2])
        /\ log[j - 1].op = "FileDelWriteError"
        /\ log[j].op = "Close"
        /\ log[j].ret = Nil
        /\ FileDelegated(log[j])
        /\ ~ClosedBefore(j, log[j].arg)
        /\ {log[j - 3].arg, log[j - 2].arg, log[j - 1].arg} = {log[j].arg}

\* ---- the latency of a handle ----

\* C24: a handle's AddLatency(d) with d <= 0 returns an error and leaves
\* the handle's latency as it was; with d > 0 it returns nil and the
\* handle's latency, which GetLatency returns, is d.
C24_FileAddLatencyRefusesNonPositive ==
    [][\A t \in Threads :
        LET f == th'[t]
            h == th[t].arg
        IN
        /\ (th[t].pc # "idle" /\ th[t].op = "FileAddLatency" /\ th[t].lat <= 0) =>
              /\ files'[h].latency = files[h].latency
              /\ (f.pc = "idle" => f.ret # Nil)
        /\ (th[t].pc # "idle" /\ th[t].op = "FileAddLatency" /\ th[t].lat > 0) =>
              (f.pc = "idle" => (f.ret = Nil /\ files'[h].latency = f.lat))
        /\ (th[t].pc # "idle" /\ th[t].op = "FileGetLatency") =>
              (f.pc = "idle" => f.val = files[h].latency)]_vars

\* ---- map accesses and the registry lock ----

\* the next step of thread t assigns to one of the three maps and is not
\* itself a Lock() ... Unlock() section: the three assignments of copyErrors
WritesMapOutsideSection(t) == th[t].pc \in {"copyWrite", "copyRead", "copyLatency"}

\* the next step of thread t reads one of the three maps and is not
\* itself an RLock()/Lock() section: the arguments of NewBadFile and the
\* two ranges of RemoveAll/MkdirAll over the maps the getters returned
ReadsMapOutsideSection(t) ==
    th[t].pc \in {"wrap", "wrapWrite", "wrapLatency", "rangeLat", "rangeErr",
                  "copyWriteGet", "copyReadGet", "copyLatencyGet"}

\* C25: every read or write of the three maps is made with the registry
\* lock held in the matching mode: a thread about to assign to a map
\* outside a Lock section of its own holds the write lock, and a thread
\* about to read one outside a section of its own holds the lock in
\* either mode.
C25_MapAccessUnderLock ==
    \A t \in Threads :
        /\ WritesMapOutsideSection(t) => HoldsLock(t)
        /\ ReadsMapOutsideSection(t) => (HoldsLock(t) \/ HoldsRLock(t))

\* ---- a handle's fields and the handle's lock ----

\* thread t holds the lock of the handle its call is on, in either mode
HoldsFileLock(t) ==
    LET m == files[th[t].arg].mu IN m.w = t \/ m.r[t] > 0

\* the next step of thread t reads the handle's error and is not itself a
\* section of the handle's lock: getWriteError() / getReadError()
ReadsHandleOutsideSection(t) == th[t].pc = "fcheck"

\* C26: every read of a handle's fault state by a handle operation and
\* every write of it by a mutator is made with the handle's lock held: a
\* thread about to read the handle's error outside a lock section of its
\* own holds the handle's lock.
C26_HandleAccessUnderLock ==
    \A t \in Threads : ReadsHandleOutsideSection(t) => HoldsFileLock(t)

\* ---- the facade without rules ----

FacadeOps ==
    {"Chtimes", "Chmod", "Chown", "Stat", "LstatIfPossible", "SymlinkIfPossible",
     "ReadlinkIfPossible", "Rename", "RemoveAll", "Remove", "OpenFile", "Open",
     "Mkdir", "MkdirAll", "Create"}

\* no query finds an error for any path, and no path has a latency to
\* sleep for
NoRuleRegistered ==
    /\ \A p \in DOMAIN writeErrors : ~HasRule(writeErrors, p)
    /\ \A p \in DOMAIN readErrors : ~HasRule(readErrors, p)
    /\ \A p \in DOMAIN latencies : latencies[p] <= 0

\* the provider method that corresponds to the facade call f
CorrespondingOp(f) ==
    IF f.op = "LstatIfPossible" /\ ~source.lstater THEN "Stat" ELSE f.op

\* C27: with no rule registered for any path, every facade call that the
\* provider implements calls the corresponding provider method exactly
\* once, on the same path(s), and returns what it returned; a file that
\* was opened comes back as a handle without errors or latency.
C27_TransparentWithoutRules ==
    \A t \in Threads :
        LET f == th[t]
            n == Len(f.trace)
        IN (/\ Returned(t)
            /\ f.op \in FacadeOps
            /\ NoRuleRegistered
            /\ ~(f.op \in {"SymlinkIfPossible", "ReadlinkIfPossible"} /\ LacksCapability(f))) =>
            /\ Cardinality(SourceCalls(f)) = 1
            /\ f.trace[n][1] = "src"
            /\ f.trace[n][2] = CorrespondingOp(f)
            /\ Clean(f.trace[n][3]) = Clean(f.raw)
            /\ f.ret \in {Nil, SrcErr}
            /\ (f.op \in OpenOps /\ f.ret = Nil) =>
                  /\ f.val \in Handles
                  /\ FaultState(files[f.val]) = <<Nil, Nil, 0>>

\* ---- cloning while the source path changes ----

\* the write error and the latency a query finds, nil and 0 when it finds
\* none
RuleValues(p) == <<AnswerError(writeErrors, p)[1], AnswerLatency(latencies, p)[1]>>

\* the write error and the latency of p after the first k recorded calls
RuleValuesAfter(k, p) ==
    <<Expected(k + 1, "WriteError", p)[1], Expected(k + 1, "Latency", p)[1]>>

\* C28: when SymlinkIfPossible(a, b) has just returned nil while other
\* calls registered and removed rules on a, the rules on b are the rules
\* a held at one instant: after some number of the calls that returned
\* before it.
C28_CloneIsSnapshot ==
    LET n == Len(log) IN
    (/\ n >= 1
     /\ log[n].op = "SymlinkIfPossible"
     /\ log[n].ret = Nil
     /\ \A i \in 1..(n - 1) : log[i].op # "SymlinkIfPossible") =>
        \E k \in 0..(n - 1) : RuleValues(log[n].name2) = RuleValuesAfter(k, log[n].name)

\* ---- the lock protocol ----

\* thread t is in a call
InCall(t) == th[t].pc # "idle"

\* thread t has called Lock or RLock on the registry mutex and the call
\* cannot return in this state
BlockedOnRegistryLock(t) ==
    \/ th[t].pc \in {"locking", "delaying", "checking"} /\ ~CanLock(mu, t)
    \/ th[t].pc \in {"getOuter", "get", "getLatencies", "getWriteErrors"} /\ ~CanRLock(mu, t)

\* C29: the registry lock protocol has no deadlock: whenever calls are in
\* progress, at least one of them is not waiting for the registry lock,
\* so no call waits for a lock that is held by a call that waits for it.
C29_NoDeadlock ==
    (\E t \in Threads : InCall(t)) =>
        \E t \in Threads : InCall(t) /\ ~BlockedOnRegistryLock(t)

\* ---- the sleeps of RemoveAll and MkdirAll ----

\* the positions in the trace of f of the events of the kind
EventsOf(f, kind) == {i \in 1..Len(f.trace) : f.trace[i][1] = kind}

\* the paths at or under root that have a latency
DelayedUnder(root) == {p \in DOMAIN latencies : IsAtOrUnder(p, root)}

\* C30: RemoveAll(root) and MkdirAll(root) sleep once for the latency of
\* every registered path at or under root, the filesystem root and the
\* current directory included, and for no other; every sleep ends before
\* the write errors are scanned and before the provider is called, and
\* the sleeps are made also when the call returns an injected error.
C30_RecursiveCallsSleepFirst ==
    \A t \in Threads :
        LET f == th[t]
            root == Clean(f.raw)
        IN (Returned(t) /\ f.op \in {"RemoveAll", "MkdirAll"}) =>
            /\ SleptFor(f) = DelayedUnder(root)
            /\ Cardinality(EventsOf(f, "slept")) = Cardinality(DelayedUnder(root))
            /\ \A i \in EventsOf(f, "slept") :
                  /\ f.trace[i][3] = latencies[f.trace[i][2]]
                  /\ \A j \in EventsOf(f, "scan") \cup EventsOf(f, "src") : i < j
            /\ Cardinality(EventsOf(f, "scan")) = 1

\* ---- what a clone adds to the link ----

\* C31: once SymlinkIfPossible(a, b) has succeeded, for each of write
\* error, read error and latency that no query finds on a, no query finds
\* it on b and the map holds no entry for b, so that b is treated as a
\* path that was never registered.
C31_CloneAddsNoRule ==
    \A t \in Threads :
        LET f == th[t]
            a == f.name
            b == f.name2
        IN (Returned(t) /\ f.op = "SymlinkIfPossible" /\ f.ret = Nil) =>
            /\ ~AnswerError(writeErrors, a)[2] =>
                  (~AnswerError(writeErrors, b)[2] /\ ~HasKey(writeErrors, b))
            /\ ~AnswerError(readErrors, a)[2] =>
                  (~AnswerError(readErrors, b)[2] /\ ~HasKey(readErrors, b))
            /\ ~AnswerLatency(latencies, a)[2] =>
                  (~AnswerLatency(latencies, b)[2] /\ ~HasKey(latencies, b))

\* ---- a link that was not made ----

\* the registry map of a kind
MapOf(kind) ==
    CASE kind = "WriteError" -> writeErrors
      [] kind = "ReadError" -> readErrors
      [] kind = "Latency" -> latencies

\* the recorded calls that registered the kind on p
AddsOf(kind, p) == {i \in 1..Len(log) : Registers(log[i], kind, p)}

\* the value the last of the recorded registrations of the kind on p stored
LastAdded(kind, p) ==
    LET i == CHOOSE i \in AddsOf(kind, p) : \A k \in AddsOf(kind, p) : k <= i
    IN IF kind = "Latency" THEN log[i].arg ELSE log[i].arg.err

\* the value the map of the kind holds for p
Held(kind, p) == IF kind = "Latency" THEN MapOf(kind)[p] ELSE MapOf(kind)[p].err

\* the recorded SymlinkIfPossible calls that returned an error
FailedLinks == {i \in 1..Len(log) : log[i].op = "SymlinkIfPossible" /\ log[i].ret # Nil}

\* C32: as long as every SymlinkIfPossible(a, b) that returned has returned
\* an error (the write error injected on a, the missing capability, or the
\* provider's error), each of the three maps holds exactly the entries the
\* Add* calls stored: b has no entry that was not registered on b, and the
\* entries of b keep the values registered on b.
C32_FailedLinkKeepsMaps ==
    (/\ th["t1"].pc = "idle"
     /\ \A i \in 1..Len(log) : log[i].op = "SymlinkIfPossible" => i \in FailedLinks) =>
        \A kind \in Kinds : \A p \in {<<"/", "a">>, <<"/", "b">>} :
            /\ HasKey(MapOf(kind), p) = (AddsOf(kind, p) # {})
            /\ HasKey(MapOf(kind), p) => Held(kind, p) = LastAdded(kind, p)

\* C32 witness: "/a" carries a read error and a latency, "/b" a write
\* error of its own; a link has returned an error and "/b" still holds
\* only its own write error
C32_Witness ==
    /\ th["t1"].pc = "idle"
    /\ FailedLinks # {}
    /\ \A i \in 1..Len(log) : log[i].op = "SymlinkIfPossible" => i \in FailedLinks
    /\ HasKey(readErrors, <<"/", "a">>) /\ HasKey(latencies, <<"/", "a">>)
    /\ HasKey(writeErrors, <<"/", "b">>) /\ writeErrors[<<"/", "b">>].err = "e2"
    /\ ~HasKey(readErrors, <<"/", "b">>) /\ ~HasKey(latencies, <<"/", "b">>)

\* ---- the injector and the missing capability ----

\* the error map the injector consults for the call f
InjectorMap(f) == IF f.op = "SymlinkIfPossible" THEN writeErrors ELSE readErrors

\* C33: a SymlinkIfPossible(a, b) or ReadlinkIfPossible(p) on a provider
\* without the capability sleeps for the latency of its path, once and
\* before its rule is checked, and never calls the provider; when its path
\* carries an error rule of its direction (write for symlink, read for
\* readlink) it returns that error, and the not-supported error otherwise.
C33_InjectorBeforeCapability ==
    \A t \in Threads :
        LET f == th[t]
            p == Clean(f.raw)
        IN (/\ Returned(t)
            /\ f.op \in {"SymlinkIfPossible", "ReadlinkIfPossible"}
            /\ LacksCapability(f)) =>
            /\ ~Delegated(f)
            /\ SleptFor(f) = IF HasKey(latencies, p) THEN {p} ELSE {}
            /\ Cardinality(EventsOf(f, "slept")) = Cardinality(SleptFor(f))
            /\ \A i \in EventsOf(f, "slept") :
                  /\ f.trace[i][3] = latencies[p]
                  /\ \A j \in EventsOf(f, "check") : i < j
            /\ IF HasRule(InjectorMap(f), p)
               THEN f.ret = InjectorMap(f)[p].err
               ELSE ReturnedNotSupported(f)

\* C33 witness: a link asked of a provider without symlinks, on a path
\* with a write error, has returned that error
C33_Witness ==
    \E t \in Threads :
        /\ Returned(t) /\ th[t].op = "SymlinkIfPossible" /\ ~source.linker
        /\ HasRule(writeErrors, th[t].name)
        /\ th[t].ret = writeErrors[th[t].name].err

\* ---- what changes the registry ----

\* thread t is in a call that may assign to the maps: an Add* or Del*, or
\* a SymlinkIfPossible whose provider call has succeeded
MayChangeRegistry(t) ==
    /\ th[t].pc # "idle"
    /\ \/ th[t].op \in Mutators
       \/ /\ th[t].op = "SymlinkIfPossible"
          /\ th[t].pc \in {"copyWrite", "copyRead", "copyLatency"}
          /\ Delegated(th[t])

\* a step that changes one of the three maps is a step of such a call
RegistryFrame == Registry' # Registry => \E t \in Threads : MayChangeRegistry(t)

\* the facade call f returned the error of a rule without calling the
\* provider
ReturnedInjected(f) == f.op \in FacadeOps /\ f.ret \in Errors /\ ~Delegated(f)

\* the rule whose error the facade call f returned is still registered,
\* under the path the call checked
RuleStillRegistered(f) ==
    \E i \in EventsOf(f, "check") \cup EventsOf(f, "scan") :
        LET m == IF f.trace[i][2] = "write" THEN writeErrors ELSE readErrors
        IN \E p \in DOMAIN m : HasRule(m, p) /\ m[p].err = f.ret /\ IsAtOrUnder(p, Clean(f.raw))

\* C34: the three maps change only in a step of an Add*/Del* call or of a
\* SymlinkIfPossible whose provider call succeeded: no other step of a
\* facade call or of a handle call, whatever the call returns, changes
\* them; and the rule whose error a facade call has returned is still in
\* its map when the call returns.
C34_RegistryChangesOnlyByMutators ==
    [][RegistryFrame /\ (\A t \in Threads :
            (Returned(t) /\ ReturnedInjected(th[t])) => RuleStillRegistered(th[t]))']_vars

\* C34 witness: a Remove of a path with a read error and a latency was
\* delegated and returned nil, and both rules are still registered
C34_Witness ==
    \E t \in Threads :
        /\ Returned(t) /\ th[t].op = "Remove" /\ th[t].ret = Nil /\ Delegated(th[t])
        /\ HasRule(readErrors, th[t].name)
        /\ HasKey(latencies, th[t].name) /\ latencies[th[t].name] > 0

\* ---- the sleep of a handle operation ----

\* C35: every operation on a handle whose latency is d > 0, Name and the
\* operations that return the handle's error included, sleeps once, for d,
\* before the handle's error is checked and before the wrapped file is
\* called; an operation on a handle whose latency is 0 does not sleep.
C35_HandleSleepsFirst ==
    \A t \in Threads :
        LET f == th[t]
            d == files[f.arg].latency
        IN (Returned(t) /\ f.op \in FileOps) =>
            /\ Cardinality(EventsOf(f, "slept")) = IF d > 0 THEN 1 ELSE 0
            /\ \A i \in EventsOf(f, "slept") :
                  /\ f.trace[i][3] = d
                  /\ \A j \in EventsOf(f, "check") \cup EventsOf(f, "fsrc") : i < j
            /\ EventsOf(f, "check") \cup EventsOf(f, "fsrc") # {}

\* C35 witness: a Name on a handle with latency 2 has slept for 2 and then
\* called the wrapped file
C35_Witness ==
    \E t \in Threads :
        /\ Returned(t) /\ th[t].op = "FileName"
        /\ files[th[t].arg].latency = 2
        /\ FileSleptFor(th[t]) = {2}
        /\ FileDelegated(th[t])

\* ---- the path Create works with ----

\* C36: a Create, Open or OpenFile of a raw path p checks the rules of
\* normalize(p), calls the provider with normalize(p), and the handle it
\* returns holds the read error, the write error and the latency
\* registered under normalize(p); for Create as for the two others.
C36_CreateUsesNormalizedPath ==
    \A t \in Threads :
        LET f == th[t]
            p == Clean(f.raw)
        IN (Returned(t) /\ f.op \in OpenOps) =>
            /\ \A i \in EventsOf(f, "check") : f.trace[i][3] = p
            /\ \A i \in EventsOf(f, "src") : f.trace[i][3] = p
            /\ f.ret = Nil => HoldsRulesOf(f.val, p)

====
